---- MODULE Spec2Model ----
(***************************************************************************)
(* A model of the python-bulletml action interpreter: bulletml/impl.py     *)
(* (Action, Bullet) and the opcode classes of bulletml/parser.py.          *)
(*                                                                         *)
(* Numbers.  The program computes with Python floats.  Here a real r is    *)
(* the integer r * Scale (fixed point, rounded to the nearest unit), and   *)
(* an angle is measured in units of 1/Scale degree, so that PI is          *)
(* 180 * Scale.  Frame counts, repeat counts and program counters are      *)
(* plain integers, as in the program.                                      *)
(*                                                                         *)
(* Objects.  Running actions (impl.Action) live in `heap`, a sequence of   *)
(* frame records; a frame is named by its index, and parent = 0 is None.   *)
(* A bullet holds the list of the indices of its active frames.            *)
(***************************************************************************)
EXTENDS Integers, Sequences, FiniteSets, TLC

\* ---------------------------------------------------------------- bounds
Scale == 12
MaxSteps == 8
MaxBullets == 2
MaxDepth == 4
MaxTimes == 3
MaxTerm == 4
MaxDraws == 3

\* The dead program counter: self.pc = None.
PcNone == -2

\* ------------------------------------------------------------ arithmetic
Abs(x) == IF x < 0 THEN -x ELSE x

\* a / n of two floats, rounded to the nearest unit (n > 0).
TrueDiv(a, n) == (2 * a + n) \div (2 * n)

\* The product of two fixed-point numbers.
Mul(a, b) == TrueDiv(a * b, Scale)

\* The float of an integer literal.
Float(n) == n * Scale

PI == 180 * Scale
PI_2 == PI * 2

\* math.radians: degrees (fixed point) to the angle unit.
radians(v) == TrueDiv(v * PI, 180 * Scale)

\* math.sin on [0, PI], by Bhaskara's rational approximation
\* 4t(PI - t) / (5 PI^2 / 4 - t(PI - t)): exact at 0, PI/6, PI/2, PI.
SinHalf(t) ==
    LET q == t * (PI - t)
    IN  TrueDiv(4 * q * Scale, ((5 * PI * PI) \div 4) - q)

sin(a) ==
    LET t == a % PI_2
    IN  IF t <= PI THEN SinHalf(t) ELSE 0 - SinHalf(t - PI)

cos(a) == sin(a + (PI \div 2))

\* math.atan on [0, 1] for the ratio m / M (0 <= m <= M, M > 0):
\* 45 z + (47/3) z (1 - z) degrees, exact at z = 0 and z = 1.
AtanRatio(m, M) ==
    TrueDiv(Scale * (135 * m * M + 47 * m * (M - m)), 3 * M * M)

\* math.atan2(a, b): the angle of the vector (b, a), in (-PI, PI].
atan2(a, b) ==
    IF a = 0 /\ b = 0 THEN 0
    ELSE LET m  == IF Abs(a) <= Abs(b) THEN Abs(a) ELSE Abs(b)
             M  == IF Abs(a) <= Abs(b) THEN Abs(b) ELSE Abs(a)
             t0 == AtanRatio(m, M)
             t1 == IF Abs(a) > Abs(b) THEN (PI \div 2) - t0 ELSE t0
             t2 == IF b < 0 THEN PI - t1 ELSE t1
         IN  IF a < 0 THEN 0 - t2 ELSE t2

\* The state of the interpreter and its host (described with the host,
\* below); rnd is the random module: the outputs random.random() gives
\* from the start on, and how many of them have been used.
VARIABLES scn, target, heap, bullets, last, hist, turn, rnd

\* ----------------------------------------------------------- expressions
\* A NumberDef is a literal, a parameter reference $i, or the quotient
\* 1/($i-c) (which NumberDef.__init__ accepts for c # 0: its trial
\* evaluation reads every parameter as 0).
Const(v) == [k |-> "const", v |-> v, c |-> 0]
Param(i) == [k |-> "param", v |-> i, c |-> 0]
Recip(i, c) == [k |-> "recip", v |-> i, c |-> c]

\* The expression $rand: a call of random.random() at each evaluation.
\* v tells which output of the generator the evaluation under way gets
\* (0: none yet); $rand is modelled in the <param> lists of reference
\* nodes.
Rand == [k |-> "rand", v |-> 0, c |-> 0]

\* The exception NumberDef.__call__ raises ("" if none): IndexError when
\* $i is beyond the vector, ZeroDivisionError when the divisor is 0.
NumberDefError(e, params) ==
    IF e.k \in {"const", "rand"} THEN ""
    ELSE IF e.v > Len(params) THEN "IndexError"
    ELSE IF e.k = "recip" /\ params[e.v] = Float(e.c)
         THEN "ZeroDivisionError"
    ELSE ""

NumberDefFails(e, params) == NumberDefError(e, params) # ""

\* random.random(): the k-th output since the program started.
random(k) == IF k \in 1..Len(rnd.stream) THEN rnd.stream[k] ELSE 0

\* a / b of two floats, b # 0.
Quot(a, b) ==
    IF b > 0 THEN TrueDiv(a * Scale, b) ELSE 0 - TrueDiv(a * Scale, 0 - b)

\* NumberDef.__call__(params, rank): a float.
NumberDef(e, params) ==
    IF e.k = "const" THEN Float(e.v)
    ELSE IF e.k = "rand" THEN random(e.v)
    ELSE IF NumberDefFails(e, params) THEN 0
    ELSE IF e.k = "recip" THEN Quot(Float(1), params[e.v] - Float(e.c))
    ELSE params[e.v]

\* INumberDef.__call__(params, rank): int(round(value)).
INumberDef(e, params) == TrueDiv(NumberDef(e, params), Scale)

RECURSIVE ParamListFrom(_, _, _)
ParamListFrom(ps, params, i) ==
    IF i > Len(ps) THEN <<>>
    ELSE <<NumberDef(ps[i], params)>> \o ParamListFrom(ps, params, i + 1)

\* ParamList.__call__(params, rank).
ParamList(ps, params) == ParamListFrom(ps, params, 1)

ParamListFails(ps, params) ==
    \E i \in 1..Len(ps) : NumberDefFails(ps[i], params)

\* --------------------------------------------------------------- opcodes
\* A Direction or Speed child: absent, or a type and an expression.
Absent == [has |-> FALSE, ty |-> "", v |-> Const(0)]
Typed(ty, e) == [has |-> TRUE, ty |-> ty, v |-> e]

\* An Offset child of a fire: absent, or a type and the x and y
\* expressions (a missing one counts 0).
NoOffset == [has |-> FALSE, ty |-> "", x |-> Const(0), y |-> Const(0)]
Offset(ty, x, y) == [has |-> TRUE, ty |-> ty, x |-> x, y |-> y]

Op0 ==
    [op |-> "", term |-> Const(0), dir |-> Absent, spd |-> Absent,
     hor |-> Absent, ver |-> Absent, ref |-> "", isref |-> FALSE,
     params |-> <<>>, els |-> "", bullet |-> "", off |-> NoOffset,
     appearance |-> "", tag |-> "", tags |-> {}]

Wait(e) == [Op0 EXCEPT !.op = "wait", !.term = e]
Vanish == [Op0 EXCEPT !.op = "vanish"]
Appearance(appearance) ==
    [Op0 EXCEPT !.op = "appearance", !.appearance = appearance]
Tag(tag) == [Op0 EXCEPT !.op = "tag", !.tag = tag]
Untag(tag) == [Op0 EXCEPT !.op = "untag", !.tag = tag]
ChangeDirection(term, ty, e) ==
    [Op0 EXCEPT !.op = "changeDirection", !.term = term, !.dir = Typed(ty, e)]
ChangeSpeed(term, ty, e) ==
    [Op0 EXCEPT !.op = "changeSpeed", !.term = term, !.spd = Typed(ty, e)]
Accel(term, hor, ver) ==
    [Op0 EXCEPT !.op = "accel", !.term = term, !.hor = hor, !.ver = ver]
ActionDef(label) == [Op0 EXCEPT !.op = "action", !.ref = label]
ActionRef(label, ps) ==
    [Op0 EXCEPT !.op = "action", !.ref = label, !.isref = TRUE, !.params = ps]
Repeat(times, inner) == [inner EXCEPT !.op = "repeat", !.term = times]
If(cond, then, else) ==
    [Op0 EXCEPT !.op = "if", !.term = cond, !.ref = then, !.els = else]
FireDef(bullet, dir, spd) ==
    [Op0 EXCEPT !.op = "fire", !.bullet = bullet, !.dir = dir, !.spd = spd]
FireDefAt(bullet, dir, spd, off) ==
    [FireDef(bullet, dir, spd) EXCEPT !.off = off]
FireRef(label, ps) ==
    [Op0 EXCEPT !.op = "fireRef", !.ref = label, !.params = ps]

\* A BulletDef: optional direction and speed, and its action children.
\* BulletDef.FromXML reads no appearance: the definition's is None ("").
\* Its tags are those of its <tag> children.
BulletDef(dir, spd, actions) ==
    [dir |-> dir, spd |-> spd, actions |-> actions, appearance |-> "",
     tags |-> {}]

\* ------------------------------------------------------------- documents
\* The document under execution is chosen by the scenario record `scn`
\* (kind k and the numbers the kind uses); DocOf builds what
\* BulletML.FromXML yields for it: the top actions, and the definitions
\* of actions, bullets and fires by label.
\* The loader alone (BulletML.FromXML) and the collision tests alone
\* (bulletml/collision.py) are run by specifications of their own, on
\* these variables: the XML source and what loading it yields; the two
\* objects handed to overlaps and collides and what these return.
VARIABLES source, loaded, objA, objB, verdict

hostVars == <<scn, target, heap, bullets, last, hist, turn, rnd>>
loadVars == <<source, loaded>>
collisionVars == <<objA, objB, verdict>>
vars == <<scn, target, heap, bullets, last, hist, turn, rnd,
          source, loaded, objA, objB, verdict>>

Plain == BulletDef(Absent, Absent, <<>>)

\* Nested action > ... > vanish, beside a second top action that fires.
DocVanish(n) ==
    [top     |-> <<"top1", "top2">>,
     actions |-> [top1  |-> IF n = 0 THEN <<Vanish>> ELSE <<ActionDef("mid")>>,
                  mid   |-> IF n = 1 THEN <<Wait(Const(1)), Vanish>>
                            ELSE <<ActionDef("inner")>>,
                  inner |-> <<FireDef("plain", Absent, Absent), Vanish>>,
                  top2  |-> <<Repeat(Const(3), ActionDef("loop"))>>,
                  loop  |-> <<FireDef("child", Absent, Absent), Wait(Const(1))>>,
                  sub   |-> <<Wait(Const(1)), FireDef("plain", Absent, Absent)>>],
     bullets |-> [plain |-> Plain,
                  child |-> BulletDef(Absent, Absent, <<ActionDef("sub")>>)],
     fires   |-> [none |-> Op0]]

\* Two consecutive fire nodes, as FireDef or as FireRef.
DocFires(byRef) ==
    [top     |-> <<"top">>,
     actions |-> [top |-> IF byRef
                          THEN <<FireRef("f", <<>>), FireRef("f", <<>>)>>
                          ELSE <<FireDef("plain", Absent, Absent),
                                 FireDef("plain", Absent, Absent)>>],
     bullets |-> [plain |-> Plain],
     fires   |-> [f |-> FireDef("plain", Absent, Absent)]]

\* Repeat(n, body) with a body of m fire nodes.
DocRepeat(n, m) ==
    [top     |-> <<"top">>,
     actions |-> [top  |-> <<Repeat(Const(n), ActionDef("body"))>>,
                  body |-> [i \in 1..m |-> FireDef("plain", Absent, Absent)]],
     bullets |-> [plain |-> Plain],
     fires   |-> [none |-> Op0]]

\* The node that arms an interpolation over n frames.
Arming(ty, n, v) ==
    CASE ty = "speed"     -> ChangeSpeed(Const(n), "absolute", Const(v))
      [] ty = "direction" -> ChangeDirection(Const(n), "absolute", Const(v))
      [] OTHER            -> Accel(Const(n), Typed("absolute", Const(v)),
                                   Typed("relative", Const(v)))

\* The node that follows the arming node in the same action.
Follower(w) ==
    CASE w = 1 -> <<Wait(Const(1))>>
      [] w = 2 -> <<ActionDef("sub")>>
      [] w = 3 -> <<ActionRef("sub", <<>>)>>
      [] w = 4 -> <<Repeat(Const(2), ActionDef("sub"))>>
      [] w = 5 -> <<If(Const(1), "sub", "")>>
      [] w = 6 -> <<FireDef("plain", Absent, Absent)>>
      [] OTHER -> <<>>

DocArm(ty, n, v, w) ==
    [top     |-> <<"top">>,
     actions |-> [top |-> <<Arming(ty, n, v)>> \o Follower(w),
                  sub |-> <<Wait(Const(1))>>],
     bullets |-> [plain |-> Plain],
     fires   |-> [none |-> Op0]]

\* ChangeDirection over n frames, then a wait that outlasts it.
DocTurn(ty, n, v) ==
    [top     |-> <<"top">>,
     actions |-> [top |-> <<ChangeDirection(Const(n), ty, Const(v)),
                            Wait(Const(n + 1))>>],
     bullets |-> [plain |-> Plain],
     fires   |-> [none |-> Op0]]

\* Accel(horizontal absolute v, vertical 0, term n), Wait(n + 1).
DocAccel(n, v) ==
    [top     |-> <<"top">>,
     actions |-> [top |-> <<Accel(Const(n), Typed("absolute", Const(v)),
                                  Typed("absolute", Const(0))),
                            Wait(Const(n + 1))>>],
     bullets |-> [plain |-> Plain],
     fires   |-> [none |-> Op0]]

\* Repeat(4, [fire direction sequence v speed 1, Wait(1)]).
DocFan(v) ==
    [top     |-> <<"top">>,
     actions |-> [top  |-> <<Repeat(Const(4), ActionDef("body"))>>,
                  body |-> <<FireDef("plain", Typed("sequence", Const(v)),
                                     Typed("absolute", Const(1))),
                             Wait(Const(1))>>],
     bullets |-> [plain |-> Plain],
     fires   |-> [none |-> Op0]]

\* A top action (host params <<n>>) that runs sub with the params
\* <<v, $1>>; sub fires with absolute direction $1, runs deep with the
\* param <<$2>>, and deep fires with absolute direction $1.
DocRef(v) ==
    [top     |-> <<"top">>,
     actions |-> [top  |-> <<ActionRef("sub", <<Const(v), Param(1)>>)>>,
                  sub  |-> <<FireDef("plain", Typed("absolute", Param(1)),
                                     Typed("absolute", Const(1))),
                             Wait(Const(1)),
                             Repeat(Const(2), ActionRef("deep", <<Param(2)>>))>>,
                  deep |-> <<FireDef("plain", Typed("absolute", Param(1)),
                                     Typed("absolute", Const(1))),
                             Wait(Const(1))>>],
     bullets |-> [plain |-> Plain],
     fires   |-> [none |-> Op0]]

\* Two fire nodes with the same direction and speed children (absent for
\* the type "none") of a bullet whose definition has a relative direction
\* n and an absolute speed n (hasDef) or neither, then a child action that
\* fires once more with direction and speed of type sequence.
DocShot(dty, sty, v, hasDef, n) ==
    LET D == IF dty = "none" THEN Absent ELSE Typed(dty, Const(v))
        S == IF sty = "none" THEN Absent ELSE Typed(sty, Const(v))
    IN  [top     |-> <<"top">>,
         actions |-> [top |-> <<FireDef("b", D, S), FireDef("b", D, S),
                                ActionDef("seq")>>,
                      seq |-> <<FireDef("plain",
                                        Typed("sequence", Const(10)),
                                        Typed("sequence", Const(2)))>>],
         bullets |-> [b     |-> IF hasDef
                                THEN BulletDef(Typed("relative", Const(n)),
                                               Typed("absolute", Const(n)),
                                               <<>>)
                                ELSE Plain,
                      plain |-> Plain],
         fires   |-> [none |-> Op0]]

\* A fire with absolute direction d and an offset (x, y), twice, a step
\* apart.
DocOffset(ty, d, x, y) ==
    LET fire == FireDefAt("plain", Typed("absolute", Const(d)), Absent,
                          Offset(ty, Const(x), Const(y)))
    IN  [top     |-> <<"top">>,
         actions |-> [top |-> <<fire, Wait(Const(1)), fire>>],
         bullets |-> [plain |-> Plain],
         fires   |-> [none |-> Op0]]

\* ChangeDirection with a term n <= 0, then a wait.
DocSnap(ty, n, v) ==
    [top     |-> <<"top">>,
     actions |-> [top |-> <<ChangeDirection(Const(n), ty, Const(v)),
                            Wait(Const(1))>>],
     bullets |-> [plain |-> Plain],
     fires   |-> [none |-> Op0]]

\* ChangeSpeed over n frames (n <= 0: at once), then a wait that
\* outlasts it.
DocRamp(ty, n, v) ==
    [top     |-> <<"top">>,
     actions |-> [top |-> <<ChangeSpeed(Const(n), ty, Const(v)),
                            Wait(Const(n + 2))>>],
     bullets |-> [plain |-> Plain],
     fires   |-> [none |-> Op0]]

\* A repeated child action that arms a speed change, fires a bullet with
\* an action of its own and waits; the fired bullet's action vanishes it,
\* at once (w = 0) or a step later from a child frame, the action being a
\* definition or (w = 2) a reference.
DocBrood(w) ==
    [top     |-> <<"top">>,
     actions |-> [top  |-> <<Repeat(Const(2), ActionDef("body"))>>,
                  body |-> <<ChangeSpeed(Const(2), "relative", Const(1)),
                             FireDef("kid", Absent, Absent),
                             Wait(Const(2))>>,
                  die  |-> IF w = 0 THEN <<Vanish>>
                           ELSE <<Wait(Const(1)), ActionDef("die2")>>,
                  die2 |-> <<Vanish>>],
     bullets |-> [kid   |-> BulletDef(Absent, Absent,
                                      IF w = 2
                                      THEN <<ActionRef("die", <<>>)>>
                                      ELSE <<ActionDef("die")>>),
                  plain |-> Plain],
     fires   |-> [none |-> Op0]]

\* Documents the loader accepts whose steps can raise: a Repeat around
\* an action with no node (w = 0), a wait for $1 frames (w = 1), a wait
\* for 1/($1-1) frames (w = 2).
DocFault(w, n) ==
    [top     |-> <<"top">>,
     actions |-> [top  |-> CASE w = 0 ->
                                <<Repeat(Const(n), ActionDef("none"))>>
                             [] w = 1 -> <<Wait(Param(1))>>
                             [] OTHER -> <<Wait(Recip(1, 1))>>,
                  none |-> <<>>],
     bullets |-> [plain |-> Plain],
     fires   |-> [none |-> Op0]]

\* An action that refers to itself: directly (w = 0), through a second
\* action (w = 1), or directly after a wait (w = 2).
DocCycle(w) ==
    [top     |-> <<"top">>,
     actions |-> [top |-> CASE w = 0 -> <<ActionRef("top", <<>>)>>
                            [] w = 1 -> <<ActionRef("a", <<>>)>>
                            [] OTHER -> <<Wait(Const(1)),
                                          ActionRef("top", <<>>)>>,
                  a   |-> <<ActionRef("top", <<>>)>>],
     bullets |-> [plain |-> Plain],
     fires   |-> [none |-> Op0]]

\* An Appearance node, then two fires a step apart: of a plain bullet
\* (w = 0), of a bullet with an appearance of its own first (w = 1), or
\* (w = 2) a fired "blue" bullet that runs the Appearance node and fires.
DocLook(w) ==
    [top     |-> <<"top">>,
     actions |-> [top  |-> IF w = 2
                           THEN <<[FireDef("gunner", Absent, Absent)
                                      EXCEPT !.appearance = "blue"]>>
                           ELSE <<ActionDef("show")>>,
                  show |-> <<Appearance("red"),
                             [FireDef("plain", Absent, Absent)
                                 EXCEPT !.appearance =
                                            IF w = 1 THEN "blue" ELSE ""],
                             Wait(Const(1)),
                             FireDef("plain", Absent, Absent)>>],
     bullets |-> [plain  |-> Plain,
                  gunner |-> BulletDef(Absent, Absent, <<ActionDef("show")>>)],
     fires   |-> [none |-> Op0]]

\* Two top actions that push children which wait, finish and are pushed
\* again; with w = 1 the children push children of their own.
DocSlots(w) ==
    [top     |-> <<"top1", "top2">>,
     actions |-> [top1 |-> <<Repeat(Const(2), ActionDef("hop")),
                             Wait(Const(1)), ActionDef("hop")>>,
                  top2 |-> <<ActionDef("hop")>>,
                  hop  |-> IF w = 1
                           THEN <<ActionDef("leaf"), Wait(Const(1))>>
                           ELSE <<Wait(Const(1))>>,
                  leaf |-> <<Wait(Const(1))>>],
     bullets |-> [plain |-> Plain],
     fires   |-> [none |-> Op0]]

\* A speed change over 6 frames, a wait of n frames and a fire, next to
\* an action that waits a frame and then (v = 1) makes the bullet vanish.
DocHold(n, v) ==
    [top     |-> <<"top1", "top2">>,
     actions |-> [top1 |-> IF v = 1 THEN <<Wait(Const(1)), Vanish>>
                           ELSE <<Wait(Const(1))>>,
                  top2 |-> <<ChangeSpeed(Const(6), "relative", Const(6)),
                             Wait(Const(n)),
                             FireDef("plain", Absent, Absent)>>],
     bullets |-> [plain |-> Plain],
     fires   |-> [none |-> Op0]]

\* A speed change over n frames, a wait, a control node that pushes a
\* child frame and a fire.  The child arms an acceleration, fires with
\* sequence direction and speed and waits; with w = 3 it is pushed by an
\* intermediate child, with w = 4 the pushed child is empty.
DocNest(n, w) ==
    [top     |-> <<"top">>,
     actions |-> [top  |-> <<ChangeSpeed(Const(n), "relative", Const(n)),
                             Wait(Const(1)),
                             CASE w = 0 -> ActionDef("sub")
                               [] w = 1 -> Repeat(Const(2), ActionDef("sub"))
                               [] w = 2 -> ActionRef("sub", <<>>)
                               [] w = 3 -> ActionDef("deep")
                               [] OTHER -> ActionDef("none"),
                             FireDef("plain", Absent, Absent)>>,
                  deep |-> <<ActionDef("sub"), Wait(Const(1))>>,
                  sub  |-> <<Accel(Const(3), Typed("relative", Const(3)),
                                   Absent),
                             FireDef("plain", Typed("sequence", Const(10)),
                                     Typed("sequence", Const(1))),
                             Wait(Const(1))>>,
                  none |-> <<>>],
     bullets |-> [plain |-> Plain],
     fires   |-> [none |-> Op0]]

\* An If with the condition n, or (v = 1) 1/($1-n), and with or without
\* (w = 0) an else branch, then a fire; the branches and the fire that
\* follows give their bullets the speeds 1, 2 and 9.
DocBranch(n, v, w) ==
    LET shot(speed) == FireDef("plain", Absent,
                               Typed("absolute", Const(speed)))
    IN  [top     |-> <<"top">>,
         actions |-> [top |-> <<If(IF v = 1 THEN Recip(1, n) ELSE Const(n),
                                   "yes", IF w = 1 THEN "no" ELSE ""),
                                shot(9)>>,
                      yes |-> <<shot(1), Wait(Const(1))>>,
                      no  |-> <<shot(2), Wait(Const(1))>>],
         bullets |-> [plain |-> Plain],
         fires   |-> [none |-> Op0]]

\* An Accel over n frames that gives one axis only (horizontal; vertical
\* with w = 2) and a wait; with w = 1 and w = 2 it comes after an Accel
\* over one frame that gave the other axis only, and a wait of 2 frames.
DocAxes(n, w) ==
    LET only(term, v, hor) ==
            IF hor THEN Accel(Const(term), Typed("relative", Const(v)), Absent)
            ELSE Accel(Const(term), Absent, Typed("relative", Const(v)))
    IN  [top     |-> <<"top">>,
         actions |-> [top |-> (IF w = 0 THEN <<>>
                               ELSE <<only(1, 4, w = 2), Wait(Const(2))>>)
                              \o <<only(n, n, w # 2), Wait(Const(n + 1))>>],
         bullets |-> [plain |-> Plain],
         fires   |-> [none |-> Op0]]

\* A reference with the param $rand to an action, repeated twice; the
\* action fires by reference with the param $rand, fires a bullet of
\* speed $1 and waits; the referenced fire gives its bullet the speed $1.
DocDice ==
    [top     |-> <<"top">>,
     actions |-> [top  |-> <<Repeat(Const(2), ActionRef("body", <<Rand>>))>>,
                  body |-> <<FireRef("f", <<Rand>>),
                             FireDef("plain", Absent,
                                     Typed("absolute", Param(1))),
                             Wait(Const(1))>>],
     bullets |-> [plain |-> Plain],
     fires   |-> [f |-> FireDef("plain", Absent,
                                Typed("absolute", Param(1)))]]

\* A bullet that tags itself, sets its appearance, arms a change of
\* speed, of direction and an acceleration over n frames each, waits w
\* frames and vanishes, next to an action that after 2 frames changes the
\* tags, the appearance and the speed again.
DocFade(n, w) ==
    [top     |-> <<"top1", "top2">>,
     actions |-> [top1 |-> <<Tag("hot"), Appearance("red"),
                             ChangeSpeed(Const(n), "relative", Const(n)),
                             ChangeDirection(Const(n), "relative", Const(90)),
                             Accel(Const(n), Typed("relative", Const(n)),
                                   Typed("relative", Const(n))),
                             Wait(Const(w)), Vanish, Tag("never")>>,
                  top2 |-> <<Wait(Const(2)), Untag("hot"), Tag("late"),
                             Appearance("blue"),
                             ChangeSpeed(Const(n), "relative", Const(2)),
                             Wait(Const(1)), Tag("last")>>],
     bullets |-> [plain |-> Plain],
     fires   |-> [none |-> Op0]]

DocOf(s) ==
    CASE s.k = "vanish" -> DocVanish(s.n)
      [] s.k = "fade"   -> DocFade(s.n, s.w)
      [] s.k = "dice"   -> DocDice
      [] s.k = "axes"   -> DocAxes(s.n, s.w)
      [] s.k = "branch" -> DocBranch(s.n, s.v, s.w)
      [] s.k = "nest"   -> DocNest(s.n, s.w)
      [] s.k = "fires"  -> DocFires(s.w = 1)
      [] s.k = "repeat" -> DocRepeat(s.n, s.w)
      [] s.k = "arm"    -> DocArm(s.ty, s.n, s.v, s.w)
      [] s.k = "turn"   -> DocTurn(s.ty, s.n, s.v)
      [] s.k = "accel"  -> DocAccel(s.n, s.v)
      [] s.k = "fan"    -> DocFan(s.v)
      [] s.k = "cycle"  -> DocCycle(s.w)
      [] s.k = "hold"   -> DocHold(s.n, s.v)
      [] s.k = "slots"  -> DocSlots(s.w)
      [] s.k = "look"   -> DocLook(s.w)
      [] s.k = "fault"  -> DocFault(s.w, s.n)
      [] s.k = "brood"  -> DocBrood(s.w)
      [] s.k = "ramp"   -> DocRamp(s.ty, s.n, s.v)
      [] s.k = "snap"   -> DocSnap(s.ty, s.n, s.v)
      [] s.k = "offset" -> DocOffset(s.ty, s.n, s.v, s.w)
      [] s.k = "shot"   -> DocShot(s.ty, "none", s.v, s.w = 1, s.n)
      [] s.k = "pace"   -> DocShot("none", s.ty, s.v, s.w = 1, s.n)
      [] OTHER          -> DocRef(s.v)

Doc == DocOf(scn)

\* --------------------------------------------------- impl.Action (frames)
\* A faulty Action.copy_state that leaves the acceleration and the
\* previous fire direction and speed behind; C31 tells the two apart.
copy_stateMoving(self, other) ==
    [self EXCEPT !.direction_frames = other.direction_frames,
                 !.direction = other.direction,
                 !.aiming = other.aiming,
                 !.speed_frames = other.speed_frames,
                 !.speed = other.speed]

\* Action.copy_state: self takes the fire/movement state of other.
copy_state(self, other) ==
    [self EXCEPT !.direction_frames = other.direction_frames,
                 !.direction = other.direction,
                 !.aiming = other.aiming,
                 !.speed_frames = other.speed_frames,
                 !.speed = other.speed,
                 !.accel_frames = other.accel_frames,
                 !.mx = other.mx,
                 !.my = other.my,
                 !.previous_fire_direction = other.previous_fire_direction,
                 !.previous_fire_speed = other.previous_fire_speed]

\* Action.__init__(parent, actions, params, rank, repeat), in heap h.
Action(h, parent, actions, params, repeat) ==
    LET self == [actions |-> actions, parent |-> parent, repeat |-> repeat,
                 wait_frames |-> 0, speed |-> 0, speed_frames |-> 0,
                 direction |-> 0, direction_frames |-> 0, aiming |-> FALSE,
                 mx |-> 0, my |-> 0, accel_frames |-> 0,
                 previous_fire_direction |-> 0, previous_fire_speed |-> 0,
                 params |-> params, pc |-> -1, finished |-> FALSE]
    IN  IF parent # 0 THEN copy_state(self, h[parent]) ELSE self

\* A faulty Action.vanish that ends the frame alone and leaves its parents
\* running; C3 tells the two apart.
ActionVanishSelf(h, f) ==
    [h EXCEPT ![f].pc = PcNone, ![f].finished = TRUE]

\* Action.vanish: end this action and its parents.
RECURSIVE ActionVanish(_, _)
ActionVanish(h, f) ==
    LET h1 == IF h[f].parent # 0 THEN ActionVanish(h, h[f].parent) ELSE h
    IN  [h1 EXCEPT ![f].pc = PcNone, ![f].finished = TRUE]

\* ---------------------------------------------------------- impl.Bullet
\* Bullet.__init__.
Bullet(x, y, direction, speed, actions) ==
    [x |-> x, y |-> y, px |-> x, py |-> y, mx |-> 0, my |-> 0,
     direction |-> direction, speed |-> speed,
     vanished |-> FALSE, finished |-> FALSE, actions |-> actions,
     appearance |-> "", apearance |-> "", tags |-> {}]

\* Bullet.aim: the angle to the target, 0 without a target.
aim(b) ==
    IF ~target.has THEN 0
    ELSE atan2(target.x - b.x, target.y - b.y)

\* A step in progress: the heap h, the owner b, the list object `it` that
\* Bullet.step iterates (it is b.actions until vanish() rebinds b.actions,
\* `same`), the bullets created so far, the opcodes executed so far with
\* the owner's motion state and active list and the frame's previous fire
\* direction and speed when each began, the
\* exception raised (if any), and the truth value the last opcode returned.
Event(s, f, op) ==
    [f |-> f, op |-> op, pc |-> s.h[f].pc, speed |-> s.b.speed,
     direction |-> s.b.direction, mx |-> s.b.mx, my |-> s.b.my,
     x |-> s.b.x, y |-> s.b.y,
     pfd |-> s.h[f].previous_fire_direction,
     pfs |-> s.h[f].previous_fire_speed,
     active |-> s.b.actions, ncreated |-> Len(s.created)]

Logged(s, f, op) == [s EXCEPT !.log = Append(@, Event(s, f, op))]

RECURSIVE VanishAll(_, _, _)
VanishAll(h, actions, i) ==
    IF i > Len(actions) THEN h
    ELSE VanishAll(ActionVanish(h, actions[i]), actions, i + 1)

\* A faulty Bullet.vanish that sets the flag and leaves the actions
\* running; C2 tells the two apart.
BulletVanishFlagOnly(s) == [s EXCEPT !.b.vanished = TRUE]

\* A faulty Bullet.vanish that ends the actions and leaves them in the
\* bullet's list, where their interpolations go on; C40 tells the two
\* apart.
BulletVanishListed(s) ==
    [s EXCEPT !.b.vanished = TRUE,
              !.h = VanishAll(s.h, s.b.actions, 1)]

\* Bullet.vanish on a step in progress.
BulletVanish(s) ==
    [s EXCEPT !.b.vanished = TRUE,
              !.h = VanishAll(s.h, s.b.actions, 1),
              !.b.actions = <<>>,
              !.same = FALSE]

\* list.index(old): the first position holding old, 0 if none.
Index(list, old) ==
    IF \E i \in 1..Len(list) : list[i] = old
    THEN CHOOSE i \in 1..Len(list) :
            list[i] = old /\ \A j \in 1..(i - 1) : list[j] # old
    ELSE 0

\* A faulty Bullet.replace that leaves the list as it is; C28 tells the
\* two apart.
BulletReplaceKept(s, old, new) == s

\* Bullet.replace(old, new).
BulletReplace(s, old, new) ==
    LET idx == Index(s.b.actions, old)
    IN  IF idx = 0 THEN s
        ELSE [s EXCEPT !.b.actions[idx] = new,
                       !.it = IF s.same THEN [@ EXCEPT ![idx] = new] ELSE @]

\* ------------------------------------------------- parser opcode __call__
Raise(s, e) == [s EXCEPT !.err = e, !.ret = FALSE]
Return(s, v) == [s EXCEPT !.ret = v]

\* A faulty ChangeDirection.__call__ that does not bring the difference
\* into [-PI, PI); C14 tells the two apart.
ChangeDirectionCallRaw(s0, f, op, params) ==
    LET frames == INumberDef(op.term, params)
        type == op.dir.ty
        value == radians(NumberDef(op.dir.v, params))
        s == [s0 EXCEPT !.h[f].direction_frames = frames,
                        !.h[f].aiming = FALSE]
    IN  IF type = "sequence"
        THEN Return([s EXCEPT !.h[f].direction = value], FALSE)
        ELSE LET d == IF type = "absolute" THEN value - s.b.direction
                      ELSE IF type # "relative"
                           THEN value + aim(s.b) - s.b.direction
                           ELSE value
                 s1 == IF type # "absolute" /\ type # "relative"
                       THEN [s EXCEPT !.h[f].aiming = TRUE] ELSE s
             IN  IF frames <= 0
                 THEN Return([s1 EXCEPT !.b.direction = @ + d], FALSE)
                 ELSE Return([s1 EXCEPT !.h[f].direction = TrueDiv(d, frames)],
                             FALSE)

\* ChangeDirection.__call__.
ChangeDirectionCall(s0, f, op, params) ==
    LET frames == INumberDef(op.term, params)
        type == op.dir.ty
        value == radians(NumberDef(op.dir.v, params))
        s == [s0 EXCEPT !.h[f].direction_frames = frames,
                        !.h[f].aiming = FALSE]
    IN  IF type = "sequence"
        THEN Return([s EXCEPT !.h[f].direction = value], FALSE)
        ELSE LET d0 == IF type = "absolute" THEN value - s.b.direction
                       ELSE IF type # "relative"
                            THEN value + aim(s.b) - s.b.direction
                            ELSE value
                 s1 == IF type # "absolute" /\ type # "relative"
                       THEN [s EXCEPT !.h[f].aiming = TRUE] ELSE s
                 d == ((d0 + PI) % PI_2) - PI
             IN  IF frames <= 0
                 THEN Return([s1 EXCEPT !.b.direction = @ + d], FALSE)
                 ELSE Return([s1 EXCEPT !.h[f].direction = TrueDiv(d, frames)],
                             FALSE)

\* A faulty ChangeSpeed.__call__ that stores a relative change whole, as
\* it stores a sequence one, instead of its share per frame; C15 tells the
\* two apart.
ChangeSpeedCallWhole(s0, f, op, params) ==
    LET frames == INumberDef(op.term, params)
        type == op.spd.ty
        speed == NumberDef(op.spd.v, params)
        s == [s0 EXCEPT !.h[f].speed_frames = frames]
    IN  Return(
          IF frames <= 0
          THEN IF type = "absolute" THEN [s EXCEPT !.b.speed = speed]
               ELSE IF type = "relative" THEN [s EXCEPT !.b.speed = @ + speed]
               ELSE s
          ELSE IF type \in {"sequence", "relative"}
               THEN [s EXCEPT !.h[f].speed = speed]
          ELSE [s EXCEPT !.h[f].speed = TrueDiv(speed - s.b.speed, frames)],
          FALSE)

\* ChangeSpeed.__call__.
ChangeSpeedCall(s0, f, op, params) ==
    LET frames == INumberDef(op.term, params)
        type == op.spd.ty
        speed == NumberDef(op.spd.v, params)
        s == [s0 EXCEPT !.h[f].speed_frames = frames]
    IN  Return(
          IF frames <= 0
          THEN IF type = "absolute" THEN [s EXCEPT !.b.speed = speed]
               ELSE IF type = "relative" THEN [s EXCEPT !.b.speed = @ + speed]
               ELSE s
          ELSE IF type = "sequence" THEN [s EXCEPT !.h[f].speed = speed]
          ELSE IF type = "relative"
               THEN [s EXCEPT !.h[f].speed = TrueDiv(speed, frames)]
          ELSE [s EXCEPT !.h[f].speed = TrueDiv(speed - s.b.speed, frames)],
          FALSE)

\* One axis of Accel.__call__: the owner's and the frame's value after it.
AccelAxis(frames, sp, params, owned, armed) ==
    LET v == NumberDef(sp.v, params)
    IN  IF ~sp.has THEN <<owned, armed>>
        ELSE IF frames <= 0
             THEN IF sp.ty = "absolute" THEN <<v, armed>>
                  ELSE IF sp.ty = "relative" THEN <<owned + v, armed>>
                  ELSE <<owned, armed>>
        ELSE IF sp.ty = "sequence" THEN <<owned, v>>
        ELSE IF sp.ty = "absolute" THEN <<owned, TrueDiv(v - owned, frames)>>
        ELSE IF sp.ty = "relative" THEN <<owned, TrueDiv(v, frames)>>
        ELSE <<owned, armed>>

\* Accel.__call__.
AccelCall(s, f, op, params) ==
    LET frames == INumberDef(op.term, params)
        h == AccelAxis(frames, op.hor, params, s.b.mx, s.h[f].mx)
        v == AccelAxis(frames, op.ver, params, s.b.my, s.h[f].my)
    IN  Return([s EXCEPT !.h[f].accel_frames = frames,
                         !.b.mx = h[1], !.h[f].mx = h[2],
                         !.b.my = v[1], !.h[f].my = v[2]], FALSE)

\* A faulty Wait.__call__ that counts the current frame as waited; C9
\* tells the two apart.
WaitCallShort(s, f, op, params) ==
    Return([s EXCEPT !.h[f].wait_frames = INumberDef(op.term, params) - 1],
           TRUE)

\* Wait.__call__.
WaitCall(s, f, op, params) ==
    Return([s EXCEPT !.h[f].wait_frames = INumberDef(op.term, params)], TRUE)

\* Vanish.__call__.
VanishCall(s) == Return(BulletVanish(s), TRUE)

\* A faulty ActionDef.__call__ that has run the first node of the new
\* bullet's action when the fire returns; C17 tells the two apart.
ActionDefStarted(h, action, label, params) ==
    Append(h, [Action(h, 0, label, params, 1) EXCEPT !.pc = 0])

\* A faulty ActionDef.__call__ that makes the firing frame the parent of
\* the new bullet's frame; C18 tells the two apart.
ActionDefAttached(h, action, label, params) ==
    Append(h, Action(h, action, label, params, 1))

\* ActionDef.__call__ with owner None (from BulletDef.__call__, which
\* passes the firing frame as action): a new frame without parent
\* (parent = None if owner is None), not stepped.  Yields the heap.
ActionDefDetached(h, action, label, params) ==
    Append(h, Action(h, 0, label, params, 1))

\* BulletDef.__call__: the frames of the new bullet's actions are added
\* to the heap; yields the heap and the list of the new frames.
RECURSIVE BulletDefActions(_, _, _, _, _, _)
BulletDefActions(h, action, as, params, i, made) ==
    IF i > Len(as) THEN [h |-> h, actions |-> made]
    ELSE LET p == IF as[i].isref THEN ParamList(as[i].params, params)
                  ELSE params
             h1 == ActionDefDetached(h, action, as[i].ref, p)
         IN  BulletDefActions(h1, action, as, params, i + 1,
                              Append(made, Len(h1)))

\* A faulty direction rule that offsets a sequence-type fire from the
\* owner's direction instead of the previous fire; C11 tells the two apart.
FireDirectionNoSequence(s, f, dir, params) ==
    LET v == radians(NumberDef(dir.v, params))
    IN  IF ~dir.has THEN aim(s.b)
        ELSE IF dir.ty = "aim" THEN v + aim(s.b)
        ELSE IF dir.ty \in {"sequence", "relative"} THEN v + s.b.direction
        ELSE v

\* The direction of the bullet FireDef.__call__ creates.
FireDirection(s, f, dir, params) ==
    LET v == radians(NumberDef(dir.v, params))
    IN  IF ~dir.has THEN aim(s.b)
        ELSE IF dir.ty = "aim" THEN v + aim(s.b)
        ELSE IF dir.ty = "sequence" THEN v + s.h[f].previous_fire_direction
        ELSE IF dir.ty = "relative" THEN v + s.b.direction
        ELSE v

\* The speed rule of the reference implementation, which offsets a
\* relative-type fire from the previous fire speed; C12 tells the two
\* apart.
FireSpeedNoiz(s, f, spd, params) ==
    LET v == NumberDef(spd.v, params)
    IN  IF ~spd.has THEN Float(1)
        ELSE IF spd.ty \in {"sequence", "relative"}
             THEN v + s.h[f].previous_fire_speed
        ELSE v

\* The speed of the bullet FireDef.__call__ creates.
FireSpeed(s, f, spd, params) ==
    LET v == NumberDef(spd.v, params)
    IN  IF ~spd.has THEN Float(1)
        ELSE IF spd.ty = "sequence" THEN v + s.h[f].previous_fire_speed
        ELSE IF spd.ty = "relative" THEN v + s.b.speed
        ELSE v

\* A FireDef.__call__ that ends with `return True`; C4 tells the two apart.
FireDefSuspends == TRUE

\* A faulty placement that displaces the new bullet by (off_x, off_y)
\* turned into the axes of its motion (off_x along the firing direction);
\* C13 tells the two apart.
FirePositionForward(s, off, direction, params) ==
    LET ox == NumberDef(off.x, params)
        oy == NumberDef(off.y, params)
    IN  IF ~off.has THEN [x |-> s.b.x, y |-> s.b.y]
        ELSE IF off.ty = "relative"
        THEN [x |-> s.b.x + Mul(sin(direction), ox) + Mul(cos(direction), oy),
              y |-> s.b.y + Mul(cos(direction), ox) - Mul(sin(direction), oy)]
        ELSE [x |-> s.b.x + ox, y |-> s.b.y + oy]

\* The position of the bullet FireDef.__call__ creates: the owner's,
\* displaced by the offset (turned by the firing direction when relative).
FirePosition(s, off, direction, params) ==
    LET ox == NumberDef(off.x, params)
        oy == NumberDef(off.y, params)
    IN  IF ~off.has THEN [x |-> s.b.x, y |-> s.b.y]
        ELSE IF off.ty = "relative"
        THEN [x |-> s.b.x + Mul(cos(direction), ox) + Mul(sin(direction), oy),
              y |-> s.b.y + Mul(sin(direction), ox) - Mul(cos(direction), oy)]
        ELSE [x |-> s.b.x + ox, y |-> s.b.y + oy]

\* The appearance of the bullet FireDef.__call__ creates: the fire's,
\* else the bullet definition's, else the owner's.
FireAppearance(s, op, def) ==
    IF op.appearance # "" THEN op.appearance
    ELSE IF def.appearance # "" THEN def.appearance
    ELSE s.b.appearance

\* The truth value FireDef.__call__ returns: it has no return statement.
FireDefReturns == FALSE

\* FireDef.__call__.
FireDefCall(s, f, op, params) ==
    LET def == Doc.bullets[op.bullet]
        made == BulletDefActions(s.h, f, def.actions, params, 1, <<>>)
        dir == IF op.dir.has THEN op.dir ELSE def.dir
        spd == IF op.spd.has THEN op.spd ELSE def.spd
        direction == FireDirection(s, f, dir, params)
        speed == FireSpeed(s, f, spd, params)
        at == FirePosition(s, op.off, direction, params)
        new == [Bullet(at.x, at.y, direction, speed, made.actions)
                   EXCEPT !.appearance = FireAppearance(s, op, def),
                          !.tags = def.tags \cup op.tags]
    IN  Return([s EXCEPT !.h = [made.h EXCEPT
                                  ![f].previous_fire_direction = direction,
                                  ![f].previous_fire_speed = speed],
                         !.created = Append(@, new)],
               FireDefReturns)

\* The exception raised by the first of the expressions es, evaluated in
\* order against params, that raises one ("" if none does).
FirstError(es, params) ==
    IF \A i \in 1..Len(es) : ~NumberDefFails(es[i], params) THEN ""
    ELSE NumberDefError(
             es[CHOOSE i \in 1..Len(es) :
                   /\ NumberDefFails(es[i], params)
                   /\ \A j \in 1..(i - 1) : ~NumberDefFails(es[j], params)],
             params)

Given(t) == IF t.has THEN <<t.v>> ELSE <<>>

\* The expressions an opcode evaluates against the running params, in
\* the order of its __call__.
OpExprs(op) ==
    CASE op.op \in {"wait", "if"}    -> <<op.term>>
      [] op.op = "repeat"           -> <<op.term>> \o op.params
      [] op.op = "changeDirection"  -> <<op.term, op.dir.v>>
      [] op.op = "changeSpeed"      -> <<op.term, op.spd.v>>
      [] op.op = "accel"            ->
             <<op.term>> \o Given(op.hor) \o Given(op.ver)
      [] op.op \in {"action", "fireRef"} -> op.params
      [] OTHER                      -> <<>>

OpError(op, params) == FirstError(OpExprs(op), params)
OpFails(op, params) == OpError(op, params) # ""

\* The params of the action children of a bullet definition, from the
\* i-th on.
RECURSIVE RefParams(_, _)
RefParams(as, i) ==
    IF i > Len(as) THEN <<>> ELSE as[i].params \o RefParams(as, i + 1)

\* The expressions FireDef.__call__ evaluates: those of the bullet
\* definition (its actions' params, direction, speed), then its own
\* direction, speed and offset.
FireExprs(op) ==
    LET def == Doc.bullets[op.bullet]
    IN  RefParams(def.actions, 1) \o Given(def.dir) \o Given(def.spd)
        \o Given(op.dir) \o Given(op.spd)
        \o (IF op.off.has THEN <<op.off.x, op.off.y>> ELSE <<>>)

FireError(op, params) == FirstError(FireExprs(op), params)
FireFails(op, params) == FireError(op, params) # ""

\* ------------------------------------------------------------ Action.step
\* The pending interpolations, applied before any opcode runs.
ApplySpeed(s, f) ==
    IF s.h[f].speed_frames > 0
    THEN [s EXCEPT !.h[f].speed_frames = @ - 1,
                   !.b.speed = @ + s.h[f].speed]
    ELSE s

ApplyDirection(s, f) ==
    IF s.h[f].direction_frames > 0
    THEN LET left == s.h[f].direction_frames - 1
         IN  [s EXCEPT !.h[f].direction_frames = left,
                       !.b.direction =
                           IF s.h[f].aiming /\ left <= 0
                           THEN @ + aim(s.b)
                           ELSE @ + s.h[f].direction]
    ELSE s

\* A faulty acceleration step that never counts accel_frames down; C8
\* tells the two apart.
ApplyAccelForever(s, f) ==
    IF s.h[f].accel_frames > 0
    THEN [s EXCEPT !.b.mx = @ + s.h[f].mx, !.b.my = @ + s.h[f].my]
    ELSE s

ApplyAccel(s, f) ==
    IF s.h[f].accel_frames > 0
    THEN [s EXCEPT !.h[f].accel_frames = @ - 1,
                   !.b.mx = @ + s.h[f].mx,
                   !.b.my = @ + s.h[f].my]
    ELSE s

\* A faulty end of list that gives the slot back to the parent without
\* handing it the child's state; C37 tells the two apart.
FinishAlone(s, f) ==
    LET s1 == [s EXCEPT !.h[f].pc = PcNone, !.h[f].finished = TRUE]
        p == s.h[f].parent
    IN  IF p # 0 THEN BulletReplace(s1, f, p) ELSE s1

\* The end of Action.step's list: the frame finishes, its parent takes
\* its state and its slot.
Finish(s, f) ==
    LET s1 == [s EXCEPT !.h[f].pc = PcNone, !.h[f].finished = TRUE]
        p == s.h[f].parent
    IN  IF p # 0
        THEN BulletReplace(
                 [s1 EXCEPT !.h[p] = copy_state(s1.h[p], s1.h[f])], f, p)
        ELSE s1

RECURSIVE ActionStep(_, _, _)
RECURSIVE Loop(_, _, _, _)
RECURSIVE Call(_, _, _, _, _)

\* Appearance.__call__: assigns the attribute `apearance` of the owner and
\* returns None.
AppearanceCall(s, op) == Return([s EXCEPT !.b.apearance = op.appearance], FALSE)

\* Tag.__call__: owner.tags.add(self.tag).
TagCall(s, op) == Return([s EXCEPT !.b.tags = @ \cup {op.tag}], FALSE)

\* Untag.__call__: owner.tags.remove(self.tag), a missing tag ignored.
UntagCall(s, op) == Return([s EXCEPT !.b.tags = @ \ {op.tag}], FALSE)

\* A faulty ActionDef.__call__ that returns nothing, so that the action
\* that pushed the child goes on; C32 tells the two apart.
Falsy(s) == IF s.err # "" THEN s ELSE Return(s, FALSE)

\* ActionDef.__call__ returns the child, which is true (unless child.step
\* raised).
Truthy(s) == IF s.err # "" THEN s ELSE Return(s, TRUE)

\* ActionDef.__call__ with an owner: push a child of frame f and step it.
\* A recursion deeper than MaxDepth stands for Python's recursion limit.
ActionDefCall(s, f, label, params, repeat, d) ==
    IF d >= MaxDepth THEN Raise(s, "RecursionError")
    ELSE LET child == Len(s.h) + 1
             s1 == [s EXCEPT !.h = Append(@, Action(s.h, f, label, params,
                                                    repeat))]
         IN  Truthy(ActionStep(BulletReplace(s1, f, child), child, d + 1))

\* A faulty FireRef.__call__ that hands the enclosing params on instead
\* of evaluating its own; C39 tells the two apart.
FiredEnclosing(op, params) ==
    IF op.op = "fireRef"
    THEN [fire |-> Doc.fires[op.ref], params |-> params]
    ELSE [fire |-> op, params |-> params]

\* A faulty ActionRef.__call__ that hands the enclosing params on, as an
\* ActionDef does; C10 tells the two apart.
ActionCallSameParams(op, params, repeat) ==
    [label |-> op.ref, params |-> params, repeat |-> repeat]

\* What ActionRef.__call__ / ActionDef.__call__ is called to push: the
\* action, the params vector of the child and its repeat count.  An
\* ActionRef evaluates its own params against the enclosing ones; an
\* ActionDef passes the enclosing ones on.
ActionCall(op, params, repeat) ==
    [label |-> op.ref,
     params |-> IF op.isref THEN ParamList(op.params, params) ELSE params,
     repeat |-> repeat]

\* Repeat.__call__: the inner action, with repeat = times.
RepeatCall(op, params) == ActionCall(op, params, INumberDef(op.term, params))

\* A faulty If.__call__ that takes a negative condition for false; C33
\* tells the two apart.
IfCallPositive(op, params) ==
    [label |-> IF INumberDef(op.term, params) > 0 THEN op.ref ELSE op.els,
     params |-> params, repeat |-> 1]

\* If.__call__: the branch taken (label "" when none is).
IfCall(op, params) ==
    [label |-> IF INumberDef(op.term, params) # 0 THEN op.ref ELSE op.els,
     params |-> params, repeat |-> 1]

\* The frame a control node pushes.
Pushed(op, params) ==
    CASE op.op = "action" -> ActionCall(op, params, 1)
      [] op.op = "repeat" -> RepeatCall(op, params)
      [] OTHER            -> IfCall(op, params)

\* The fire a fire node runs and the params it runs with
\* (FireRef.__call__ evaluates its own params).
Fired(op, params) ==
    IF op.op = "fireRef"
    THEN [fire |-> Doc.fires[op.ref], params |-> ParamList(op.params, params)]
    ELSE [fire |-> op, params |-> params]

\* action(owner, self, params, rank, created) for the opcode at self.pc.
Call(s0, f, op, params, d) ==
    LET s == Logged(s0, f, op.op)
    IN  IF OpFails(op, params) THEN Raise(s, OpError(op, params))
        ELSE CASE op.op = "wait"            -> WaitCall(s, f, op, params)
               [] op.op = "vanish"          -> VanishCall(s)
               [] op.op = "appearance"      -> AppearanceCall(s, op)
               [] op.op = "tag"             -> TagCall(s, op)
               [] op.op = "untag"           -> UntagCall(s, op)
               [] op.op = "changeDirection" ->
                      ChangeDirectionCall(s, f, op, params)
               [] op.op = "changeSpeed"     -> ChangeSpeedCall(s, f, op, params)
               [] op.op = "accel"           -> AccelCall(s, f, op, params)
               [] op.op \in {"action", "repeat", "if"} ->
                      LET p == Pushed(op, params)
                      IN  IF p.label = "" THEN Return(s, FALSE)
                          ELSE ActionDefCall(s, f, p.label, p.params,
                                             p.repeat, d)
               [] op.op \in {"fire", "fireRef"} ->
                      LET p == Fired(op, params)
                      IN  IF FireFails(p.fire, p.params)
                          THEN Raise(s, FireError(p.fire, p.params))
                          ELSE FireDefCall(s, f, p.fire, p.params)
               [] OTHER                     -> Return(s, FALSE)

\* if self.repeat <= 0, after the decrement at the end of the list.
RepeatExhausted(repeat) == repeat <= 0

\* self.pc += 1 and the fetch of self.actions[self.pc]: the state, whether
\* the loop is left (the frame finished, or the fetch raised), and the
\* opcode to call otherwise (pc is 0-based, lists are 1-based).
Fetch(s, f) ==
    LET acts == Doc.actions[s.h[f].actions]
        pc == s.h[f].pc + 1
        s1 == [s EXCEPT !.h[f].pc = pc]
        s2 == [s1 EXCEPT !.h[f].repeat = @ - 1]
    IN  IF pc < Len(acts)
        THEN [s |-> s1, done |-> FALSE, op |-> acts[pc + 1]]
        ELSE IF RepeatExhausted(s2.h[f].repeat)
             THEN [s |-> Finish(s2, f), done |-> TRUE, op |-> Op0]
        ELSE IF Len(acts) = 0
             THEN [s |-> Raise([s2 EXCEPT !.h[f].pc = 0], "IndexError"),
                   done |-> TRUE, op |-> Op0]
        ELSE [s |-> [s2 EXCEPT !.h[f].pc = 0], done |-> FALSE,
              op |-> acts[1]]

\* if action(...): break -- else the loop goes on.
Continue(r, f, params, d) ==
    IF r.err # "" \/ r.ret THEN r ELSE Loop(r, f, params, d)

\* The $rand of op's <param> list up to position i, counted.
Rands(ps, i) == Cardinality({j \in 1..i : ps[j].k = "rand"})

\* The opcode op as its call evaluates it in state s: each $rand of its
\* <param> list gets the next output of the generator, in list order;
\* and the state with these outputs used.
Drawn(s, op) ==
    [op EXCEPT !.params =
        [i \in 1..Len(op.params) |->
            IF op.params[i].k = "rand"
            THEN [Rand EXCEPT !.v = s.used + Rands(op.params, i)]
            ELSE op.params[i]]]
Drawing(s, op) == [s EXCEPT !.used = @ + Rands(op.params, Len(op.params))]

\* One round of the opcode loop, after the fetch n.
Round(n, f, params, d) ==
    IF n.done THEN n.s
    ELSE Continue(Call(Drawing(n.s, n.op), f, Drawn(n.s, n.op), params, d),
                  f, params, d)

\* The opcode loop of Action.step.
Loop(s, f, params, d) == Round(Fetch(s, f), f, params, d)

\* A faulty Action.step that goes on to its opcodes as soon as the wait
\* it counts down has one frame left; C30 tells the two apart.
ActionStepEager(s, f, d) ==
    LET s1 == ApplyAccel(ApplyDirection(ApplySpeed(s, f), f), f)
    IN  IF s1.h[f].pc = PcNone THEN s1
        ELSE IF s1.h[f].wait_frames > 1
             THEN [s1 EXCEPT !.h[f].wait_frames = @ - 1]
        ELSE Loop([s1 EXCEPT !.h[f].wait_frames = 0], f, s1.h[f].params, d)

\* A faulty Action.step that returns at once when the action is over,
\* before it applies the pending interpolations; C38 tells the two apart.
ActionStepDeadFirst(s, f, d) ==
    IF s.h[f].pc = PcNone THEN s
    ELSE LET s1 == ApplyAccel(ApplyDirection(ApplySpeed(s, f), f), f)
         IN  IF s1.h[f].wait_frames > 0
             THEN [s1 EXCEPT !.h[f].wait_frames = @ - 1]
             ELSE Loop(s1, f, s1.h[f].params, d)

\* Action.step(owner, created).
ActionStep(s, f, d) ==
    LET s1 == ApplyAccel(ApplyDirection(ApplySpeed(s, f), f), f)
    IN  IF s1.h[f].pc = PcNone THEN s1
        ELSE IF s1.h[f].wait_frames > 0
             THEN [s1 EXCEPT !.h[f].wait_frames = @ - 1]
        ELSE Loop(s1, f, s1.h[f].params, d)

\* ------------------------------------------------------------ Bullet.step
\* for action in self.actions: action.step(self, created);
\*     finished = finished and action.finished
RECURSIVE StepActions(_, _, _)

\* After action.step of the frame at position i of the iterated list.
Stepped(s, i, action, finished) ==
    IF s.err # "" THEN s
    ELSE StepActions(s, i + 1, finished /\ s.h[action].finished)

StepActions(s, i, finished) ==
    IF i > Len(s.it) THEN [s EXCEPT !.ret = finished]
    ELSE Stepped(ActionStep(s, s.it[i], 0), i, s.it[i], finished)

\* A faulty position update that saves (px, py) after moving; C1 tells
\* the two apart.
IntegrateLate(b) ==
    LET x == b.x + b.mx + Mul(sin(b.direction), b.speed)
        y == b.y - b.my + Mul(cos(b.direction), b.speed)
    IN  [b EXCEPT !.x = x, !.y = y, !.px = x, !.py = y]

\* The position update that ends Bullet.step.
Integrate(b) ==
    [b EXCEPT !.px = b.x, !.py = b.y,
              !.x = @ + b.mx + Mul(sin(b.direction), b.speed),
              !.y = @ - b.my + Mul(cos(b.direction), b.speed)]

\* The end of Bullet.step, after the loop over the actions (s.ret is the
\* loop's `finished`): the second look at the actions, the finished flag
\* and the position update.  When an exception leaves the call, nothing
\* is returned and the position is not updated.
StepEnd(s) ==
    LET finished == s.ret /\ \A i \in 1..Len(s.b.actions) :
                                 s.h[s.b.actions[i]].finished
    IN  IF s.err # "" THEN [s EXCEPT !.created = <<>>]
        ELSE [s EXCEPT !.b = Integrate([s.b EXCEPT !.finished = finished])]

StepState(h, b) ==
    [h |-> h, b |-> b, it |-> b.actions, same |-> TRUE,
     created |-> <<>>, log |-> <<>>, err |-> "", ret |-> FALSE,
     used |-> rnd.used]

\* A faulty Bullet.step that moves the bullet by the velocity it had
\* before its actions ran; C16 tells the two apart.
StaleMove(s, b) ==
    IF s.err # "" THEN s
    ELSE [s EXCEPT !.b.x = b.x + b.mx + Mul(sin(b.direction), b.speed),
                   !.b.y = b.y - b.my + Mul(cos(b.direction), b.speed)]

BulletStepStale(h, b) ==
    StaleMove(StepEnd(StepActions(StepState(h, b), 1, b.vanished)), b)

\* Bullet.step() of bullet b in heap h: the step state at its end.
BulletStep(h, b) == StepEnd(StepActions(StepState(h, b), 1, b.vanished))

\* Bullet.vanish() called by the host between steps.
HostVanishOf(h, b) == BulletVanish(StepState(h, b))

\* ------------------------------------------------------------- the host
\* scn     the scenario: the document, the root bullet's direction d0
\*         (degrees) and speed s0, and the params the host passes
\* target  the object bullets aim at (has = FALSE: target is None)
\* heap    the frames created so far
\* bullets the live bullets; bullets[1] is the root bullet
\* last    the last call the host made: its kind, the bullet, the bullet
\*         before the call, what step() returned, the opcodes it ran
\* hist    per bullet, the lists its calls of step() returned, in order
\* turn    the bullet the host steps next.  The host runs the loop of the
\*         package's documentation, over and over:
\*             for bullet in bullets: bullets.extend(bullet.step())
Scn(k, n, v, w, ty, d0, s0) ==
    [k |-> k, n |-> n, v |-> v, w |-> w, ty |-> ty, d0 |-> d0, s0 |-> s0]

Scenarios ==
    {Scn("vanish", n, 0, 0, "", 0, 1) : n \in 0..2}
    \cup {Scn("fires", 0, 0, w, "", 0, 1) : w \in 0..1}
    \cup {Scn("repeat", n, 0, w, "", 0, 0) : n \in -1..MaxTimes, w \in 1..2}
    \cup {Scn("arm", n, 6, w, ty, 0, 1) :
            n \in {1, MaxTerm}, w \in 0..6,
            ty \in {"speed", "direction", "accel"}}
    \cup {Scn("turn", n, v, 0, ty, d0, 0) :
            n \in {1, 2, MaxTerm}, v \in {-90, 30, 200}, d0 \in {0, 135},
            ty \in {"absolute", "relative", "aim"}}
    \cup {Scn("turn", n, 0, 0, "aim", d0, 0) :
            n \in {1, 2, MaxTerm}, d0 \in {0, 135}}
    \cup {Scn("accel", n, v, 0, "", 0, 0) : n \in 1..MaxTerm, v \in {-2, 4}}
    \cup {Scn("fan", 0, 10, 0, "", d0, 0) : d0 \in {0, 90}}
    \cup {Scn("ref", n, 30, 0, "", 0, 0) : n \in {20, 45}}
    \cup {Scn("brood", 0, 0, w, "", 0, 1) : w \in 0..2}
    \cup {Scn("cycle", 0, 0, w, "", 0, 1) : w \in 0..2}
    \cup {Scn("hold", n, v, 0, "", 0, 1) : n \in -1..3, v \in 0..1}
    \cup {Scn("slots", 0, 0, w, "", 0, 1) : w \in 0..1}
    \cup {Scn("dice", 0, 0, 0, "", 0, 1)}
    \cup {Scn("fade", n, 0, w, "", 0, 1) : n \in {2, 4}, w \in 0..3}
    \cup {Scn("axes", n, 0, w, "", 0, 1) : n \in 1..3, w \in 0..2}
    \cup {Scn("branch", n, 0, w, "", 0, 1) : n \in -2..2, w \in 0..1}
    \cup {Scn("branch", n, 1, w, "", 0, 1) : n \in {0, 3, 5, 8}, w \in 0..1}
    \cup {Scn("nest", n, 0, w, "", 0, 1) : n \in {1, 3, 6}, w \in 0..4}
    \cup {Scn("look", 0, 0, w, "", 0, 1) : w \in 0..2}
    \cup {Scn("fault", n, 0, w, "", 0, 1) : n \in 1..2, w \in 0..2}
    \cup {Scn("ramp", n, v, 0, ty, 0, 1) :
            n \in {-1, 0, 1, MaxTerm}, v \in {-1, 3},
            ty \in {"absolute", "relative", "sequence"}}
    \cup {Scn("snap", n, v, 0, ty, d0, 0) :
            n \in {-1, 0}, v \in {0, 200}, d0 \in {0, 180},
            ty \in {"absolute", "relative", "aim"}}
    \cup {Scn("offset", d, 2, w, ty, 0, 1) :
            d \in {0, 90, 180, 270}, w \in {0, 3},
            ty \in {"relative", "absolute"}}
    \cup {Scn("shot", 20, 30, w, ty, 90, 1) :
            w \in 0..1,
            ty \in {"none", "aim", "sequence", "relative", "absolute"}}
    \cup {Scn("pace", 5, 3, w, ty, 0, 2) :
            w \in 0..1,
            ty \in {"none", "sequence", "relative", "absolute"}}

NoTarget == [has |-> FALSE, x |-> 0, y |-> 0]

\* The random module: a generator for each sequence of MaxDraws outputs
\* out of a quarter and three quarters; NoDraws where no document draws.
NoDraws == [stream |-> <<>>, used |-> 0]
RandomOutputs == {Scale \div 4, (3 * Scale) \div 4}
Generators ==
    {[stream |-> st, used |-> 0] : st \in [1..MaxDraws -> RandomOutputs]}
Targets ==
    {NoTarget, [has |-> TRUE, x |-> Float(3), y |-> Float(4)],
     [has |-> TRUE, x |-> Float(-5), y |-> 0]}

\* Bullet.FromDocument(doc, x, y, direction, speed, target, params): one
\* frame without parent per top action.
HostParams(s) ==
    IF s.k = "ref" \/ (s.k = "fault" /\ s.w >= 2) THEN <<Float(s.n)>>
    ELSE IF s.k = "branch" THEN <<Float(4)>>
    ELSE <<>>

FromDocument(doc, s) ==
    LET h == [i \in 1..Len(doc.top) |->
                 Action(<<>>, 0, doc.top[i], HostParams(s), 1)]
    IN  [h |-> h,
         b |-> Bullet(0, 0, radians(Float(s.d0)), Float(s.s0),
                      [i \in 1..Len(doc.top) |-> i])]

\* Nothing is being loaded; no collision test is being made.
NotLoaded == [err |-> "", actions |-> <<>>, done |-> FALSE]
NoSource == [ns |-> TRUE, kids |-> <<>>]
LoadIdle == source = NoSource /\ loaded = NotLoaded

NoObject == [x |-> 0, y |-> 0, px |-> 0, py |-> 0, radius |-> 0]
NoVerdict == [of |-> "", is |-> FALSE]
CollisionIdle == objA = NoObject /\ objB = NoObject /\ verdict = NoVerdict

Init ==
    /\ LoadIdle /\ CollisionIdle
    /\ scn \in Scenarios
    /\ target \in IF \/ scn.k \in {"turn", "fan", "fires", "shot"}
                     \/ scn.k = "snap" /\ scn.ty = "aim"
                  THEN Targets ELSE {NoTarget}
    /\ LET r == FromDocument(DocOf(scn), scn)
       IN  /\ heap = r.h
           /\ bullets = <<r.b>>
           /\ last = [kind |-> "init", i |-> 1, pre |-> r.b,
                      created |-> <<>>, log |-> <<>>, err |-> ""]
    /\ hist = << <<>> >>
    /\ turn = 1
    /\ rnd \in IF scn.k = "dice" THEN Generators ELSE {NoDraws}

\* The host keeps the bullets a step returns while it has room for them.
Keep(bs, created) ==
    LET room == MaxBullets - Len(bs)
    IN  bs \o SubSeq(created, 1, IF Len(created) < room THEN Len(created)
                                 ELSE room)

\* The host takes r, the outcome of bullets[i].step(): the bullet's new
\* state, and the bullets it created.
Stepping(i, r, bs) ==
    /\ heap' = r.h
    /\ bullets' = bs
    /\ last' = [kind |-> "step", i |-> i, pre |-> bullets[i],
                created |-> r.created, log |-> r.log, err |-> r.err]
    /\ hist' = [j \in 1..Len(bs) |->
                   IF j = i THEN Append(hist[i], r.created)
                   ELSE IF j <= Len(hist) THEN hist[j] ELSE <<>>]
    /\ turn' = IF i < Len(bs) THEN i + 1 ELSE 1
    /\ rnd' = [rnd EXCEPT !.used = r.used]

Extended(i, r) ==
    Stepping(i, r, Keep([bullets EXCEPT ![i] = r.b], r.created))

\* The host calls bullets[i].step().
Step(i) ==
    /\ last.err = ""
    /\ i = turn
    /\ Len(hist[i]) < MaxSteps
    /\ Extended(i, BulletStep(heap, bullets[i]))
    /\ UNCHANGED <<scn, target, loadVars, collisionVars>>

\* The host calls bullets[i].vanish() between two steps.
HostVanish(i) ==
    /\ last.err = ""
    /\ ~bullets[i].vanished
    /\ LET r == HostVanishOf(heap, bullets[i])
       IN  /\ heap' = r.h
           /\ bullets' = [bullets EXCEPT ![i] = r.b]
           /\ last' = [kind |-> "vanish", i |-> i, pre |-> bullets[i],
                       created |-> <<>>, log |-> <<>>, err |-> ""]
    /\ UNCHANGED <<scn, target, hist, turn, rnd, loadVars, collisionVars>>

Next ==
    \E i \in 1..Len(bullets) : Step(i) \/ HostVanish(i)

Spec == Init /\ [][Next]_vars

\* ================================================================ claims
\* Vocabulary of the claims.
Root == bullets[1]
RootCalls == Len(hist[1])
LastWasStep == last.kind = "step" /\ last.err = ""
After == bullets[last.i]

\* The frame f and all its ancestors, in heap h.
RECURSIVE Chain(_, _)
Chain(h, f) == IF f = 0 THEN {} ELSE {f} \cup Chain(h, h[f].parent)

Dead(f) == heap[f].pc = PcNone /\ heap[f].finished

\* The positions of the log at which frame f ran a fire node.
FiresBy(f) ==
    {k \in 1..Len(last.log) :
        last.log[k].f = f /\ last.log[k].op \in {"fire", "fireRef"}}

RECURSIVE Total(_, _)
Total(calls, k) ==
    IF k > Len(calls) THEN 0 ELSE Len(calls[k]) + Total(calls, k + 1)

\* The difference of two angles, in [-PI, PI).
AngleDiff(a, b) == ((a - b + PI) % PI_2) - PI

\* C1: after every call of step(), (px, py) is the (x, y) the bullet had
\* before the call, whatever its actions did; a bullet that was never
\* stepped (the root at construction, a bullet just returned by step())
\* has (px, py) = (x, y).
C1_PreviousPosition ==
    /\ LastWasStep => After.px = last.pre.x /\ After.py = last.pre.y
    /\ \A j \in 1..Len(bullets) :
          hist[j] = <<>> => bullets[j].px = bullets[j].x
                            /\ bullets[j].py = bullets[j].y
    /\ \A k \in 1..Len(last.created) :
          last.created[k].px = last.created[k].x
          /\ last.created[k].py = last.created[k].y

\* C1 witness: a step in which the bullet fired and moved.
C1_Witness ==
    /\ LastWasStep
    /\ Len(last.created) > 0
    /\ After.y # last.pre.y
    /\ After.py = last.pre.y

\* C2: a call of step() on a bullet whose vanished flag was set before the
\* call (by a Vanish node of an earlier step, or by the host) returns no
\* bullet.
C2_VanishedFiresNothing ==
    LastWasStep /\ last.pre.vanished => last.created = <<>>

\* C2 witness: a later step of a bullet that vanished by a Vanish node two
\* frames deep, beside a second top action that was firing.
C2_Witness ==
    /\ LastWasStep
    /\ last.pre.vanished
    /\ last.i = 1
    /\ scn.k = "vanish" /\ scn.n = 2
    /\ RootCalls >= 3
    /\ Total(hist[1], 1) > 0

\* C3: at the end of a step in which a Vanish node ran, the bullet is
\* vanished, its active list is empty, and the frame that ran the node,
\* the frames of the active list at that moment and at the start of the
\* step, and all their ancestors are dead (pc None, finished).
C3_VanishKillsAll ==
    LastWasStep =>
      \A k \in 1..Len(last.log) :
         last.log[k].op = "vanish" =>
            /\ After.vanished
            /\ After.actions = <<>>
            /\ \A g \in Chain(heap, last.log[k].f) : Dead(g)
            /\ \A j \in 1..Len(last.log[k].active) :
                  \A g \in Chain(heap, last.log[k].active[j]) : Dead(g)
            /\ \A j \in 1..Len(last.pre.actions) :
                  \A g \in Chain(heap, last.pre.actions[j]) : Dead(g)

\* C3 witness: a Vanish node ran in a frame with a grandparent, while the
\* bullet had two active frames.
C3_Witness ==
    /\ LastWasStep
    /\ \E k \in 1..Len(last.log) :
          /\ last.log[k].op = "vanish"
          /\ Cardinality(Chain(heap, last.log[k].f)) = 3
          /\ Len(last.log[k].active) = 2
    /\ After.vanished

C5_RepeatRunsBodyNTimes ==
    scn.k = "repeat" /\ ~Root.vanished /\ heap[1].finished
        => Total(hist[1], 1) = scn.n * scn.w

\* C5 failing run: Repeat(0, [fire]) ran to completion and emitted one
\* bullet (the child frame runs its body before it looks at repeat).
C5_Witness ==
    /\ scn.k = "repeat" /\ scn.n = 0 /\ scn.w = 1
    /\ ~Root.vanished /\ heap[1].finished
    /\ LastWasStep /\ RootCalls = 2
    /\ Len(hist[1][1]) = 1
    /\ Total(hist[1], 1) = 1

\* C6 as stated: the step in which a ChangeSpeed, ChangeDirection or Accel
\* with term > 0 runs leaves the owner's speed, direction, mx and my as
\* they were when the node ran, whatever node follows it in the action.
C6_ArmedAppliesNextStep ==
    scn.k = "arm" /\ LastWasStep =>
      \A k \in 1..Len(last.log) :
         last.log[k].op \in {"changeSpeed", "changeDirection", "accel"}
         => /\ After.speed = last.log[k].speed
            /\ After.direction = last.log[k].direction
            /\ After.mx = last.log[k].mx
            /\ After.my = last.log[k].my

\* C6 failing run: ChangeSpeed(absolute 6, term n) followed by an action
\* node; the child frame copies the armed interpolation and, stepped in
\* the same call, applies its first delta in step 1.
C6_Witness ==
    /\ scn.k = "arm" /\ scn.ty = "speed" /\ scn.n = MaxTerm /\ scn.w = 2
    /\ LastWasStep /\ RootCalls = 1
    /\ \E k \in 1..Len(last.log) :
          /\ last.log[k].op = "changeSpeed"
          /\ last.log[k].speed = Float(scn.s0)
    /\ Root.speed = Float(scn.s0)
                       + TrueDiv(Float(scn.v) - Float(scn.s0), scn.n)

\* The direction a ChangeDirection of the "turn" scenario is meant to reach.
TurnTarget ==
    LET v == radians(Float(scn.v))
        d0 == radians(Float(scn.d0))
    IN  CASE scn.ty = "absolute" -> v
          [] scn.ty = "relative" -> d0 + v
          [] OTHER               -> v + aim(Root)

\* C7 as stated: n steps after the step that ran a ChangeDirection with
\* term n > 0 (absolute, relative or aim), the direction is the intended
\* one modulo a full turn, up to the rounding of the n deltas.
C7_TurnReachesTarget ==
    scn.k = "turn" /\ ~Root.vanished /\ RootCalls = scn.n + 1
        => 2 * Abs(AngleDiff(Root.direction, TurnTarget)) <= scn.n

\* C7 failing run: ChangeDirection(aim 30 degrees, term 2) from direction
\* 0 without a target (aim angle 0): one delta of 15 degrees, then the
\* final frame adds the aim angle, and the direction ends at 15 degrees.
C7_Witness ==
    /\ scn.k = "turn" /\ scn.ty = "aim" /\ scn.n = 2 /\ scn.v = 30
    /\ scn.d0 = 0 /\ ~target.has
    /\ ~Root.vanished /\ RootCalls = scn.n + 1
    /\ TurnTarget = radians(Float(30))
    /\ Root.direction = radians(Float(15))

\* C8 as stated: with the Accel run in step 1, mx = v from the end of step
\* n on.
C8_RampDoneAtStepN ==
    scn.k = "accel" /\ ~Root.vanished /\ RootCalls >= scn.n
        => 2 * Abs(Root.mx - Float(scn.v)) <= scn.n

\* C8 amended: with the Accel run in step 1, the end of step k holds k - 1
\* deltas for k <= n + 1, so mx = v (up to the rounding of the n deltas) at
\* the end of step n + 1 and after every later step, and my stays 0.
C8_RampDoneAtStepNPlus1 ==
    scn.k = "accel" /\ ~Root.vanished /\ RootCalls >= 1 =>
        /\ RootCalls <= scn.n + 1
              => Root.mx = (RootCalls - 1) * TrueDiv(Float(scn.v), scn.n)
        /\ RootCalls >= scn.n + 1
              => 2 * Abs(Root.mx - Float(scn.v)) <= scn.n
        /\ Root.my = 0

\* C8 witness: two steps after the ramp of the longest term ended.
C8_Witness ==
    /\ scn.k = "accel" /\ scn.n = MaxTerm /\ scn.v = 4
    /\ ~Root.vanished
    /\ RootCalls = scn.n + 3
    /\ Root.mx = Float(4)

\* The calls of the fan scenario that fire: 1, 3, 5 and 7.
FanFires(k) == k % 2 = 1 /\ k <= 7

\* C9 as stated: the first 4 calls return one bullet each, the first aimed
\* at the target, each later one 10 degrees further.
C9_FanInFourSteps ==
    scn.k = "fan" /\ ~Root.vanished /\ RootCalls >= 4 =>
        /\ \A k \in 1..4 : Len(hist[1][k]) = 1
        /\ hist[1][1][1].direction = aim(Bullet(0, 0, 0, 0, <<>>))
        /\ \A k \in 2..4 :
              hist[1][k][1].direction =
                  hist[1][k - 1][1].direction + radians(Float(scn.v))

\* C9 amended: the calls 1, 3, 5 and 7 return one bullet each and every
\* other call returns none (Wait(1) takes a whole step); the first
\* bullet's direction is the value itself, 10 degrees (the frame's
\* previous_fire_direction starts at 0, whatever the aim angle), each
\* later bullet's is the previous bullet's plus 10 degrees, and every
\* bullet has speed 1.
C9_FanEveryOtherStep ==
    scn.k = "fan" /\ ~Root.vanished =>
        \A k \in 1..RootCalls :
           /\ Len(hist[1][k]) = IF FanFires(k) THEN 1 ELSE 0
           /\ FanFires(k) =>
                 /\ hist[1][k][1].speed = Float(1)
                 /\ hist[1][k][1].direction =
                       IF k = 1 THEN radians(Float(scn.v))
                       ELSE hist[1][k - 2][1].direction
                                + radians(Float(scn.v))

\* C9 witness: eight calls made, four bullets fired, with a target whose
\* aim angle is not 10 degrees.
C9_Witness ==
    /\ scn.k = "fan" /\ ~Root.vanished /\ target.has
    /\ RootCalls = 8
    /\ Total(hist[1], 1) = 4
    /\ hist[1][7][1].direction = 4 * radians(Float(10))
    /\ aim(Bullet(0, 0, 0, 0, <<>>)) # radians(Float(10))

\* The node of the parent that pushed the live frame f, and whether its
\* <param> list is free of $rand (whose value differs at each evaluation).
PushedBy(f) ==
    LET p == heap[f].parent
    IN  Doc.actions[heap[p].actions][heap[p].pc + 1]
Determined(op) == Rands(op.params, Len(op.params)) = 0

\* C10: the frame an ActionRef pushes has as params exactly the values of
\* the ActionRef's param expressions, evaluated against the params of the
\* enclosing frame; $k inside the referenced action is the ActionRef's
\* k-th param.  In the scenario (host params <<n>>, top runs sub with
\* <<30, $1>>, sub runs deep with <<$2>>): sub's frame holds <<30, n>>,
\* deep's holds <<n>>, the first step fires at 30 degrees, and deep fires
\* at n degrees (the host did not vanish the bullet).
C10_ActionRefParams ==
    /\ \A f \in 1..Len(heap) :
          LET p == heap[f].parent
          IN  p # 0 /\ heap[p].pc # PcNone /\ ~heap[f].finished
              /\ PushedBy(f).isref /\ Determined(PushedBy(f))
              => heap[f].params = ParamList(PushedBy(f).params, heap[p].params)
    /\ scn.k = "ref" =>
          /\ \A f \in 1..Len(heap) :
                /\ heap[f].actions = "sub"
                      => heap[f].params = <<Float(scn.v), Float(scn.n)>>
                /\ heap[f].actions = "deep" /\ heap[f].parent # 0
                      => heap[f].params = <<Float(scn.n)>>
          /\ ~Root.vanished /\ RootCalls >= 1 =>
                /\ Len(hist[1][1]) = 1
                /\ hist[1][1][1].direction = radians(Float(scn.v))
          /\ ~Root.vanished /\ RootCalls >= 3 =>
                /\ Len(hist[1][3]) = 1
                /\ hist[1][3][1].direction = radians(Float(scn.n))

\* C10 witness: the third step, in which deep was pushed and fired with
\* the param handed down from the host.
C10_Witness ==
    /\ scn.k = "ref" /\ scn.n = 45
    /\ RootCalls = 3 /\ LastWasStep /\ last.i = 1
    /\ Len(last.created) = 1
    /\ last.created[1].direction = radians(Float(45))
    /\ hist[1][1][1].direction = radians(Float(30))
    /\ \E f \in 1..Len(heap) :
          heap[f].actions = "deep" /\ heap[f].params = <<Float(45)>>

\* The aim angle of a bullet at (x, y).
AimAt(x, y) == aim([x |-> x, y |-> y])

\* The fire node that the logged event e ran (a FireRef runs its FireDef),
\* and the bullet it appended to the list the step returned.
FireNode(e) ==
    LET op == Doc.actions[heap[e.f].actions][e.pc + 1]
    IN  IF op.op = "fireRef" THEN Doc.fires[op.ref] ELSE op

Shot(e) == last.created[e.ncreated + 1]

\* The node itself that the logged event e ran, and the params its fire
\* is evaluated with: a FireRef's own, evaluated against the frame's.
NodeRun(e) == Doc.actions[heap[e.f].actions][e.pc + 1]
FireParams(e) ==
    IF NodeRun(e).op = "fireRef"
    THEN ParamList(NodeRun(e).params, heap[e.f].params)
    ELSE heap[e.f].params

IsFire(e) == e.op \in {"fire", "fireRef"}

\* C11: a fired bullet's direction is resolved from the FireDef's
\* direction, else the bullet definition's, by type (aim: value + aim
\* angle, sequence: value + the frame's previous fire direction, relative:
\* value + owner direction, absolute: value; none at all: the aim angle),
\* and the frame's previous fire direction is then that direction.  In
\* the scenario (two fires with the direction under test, then a child
\* frame firing with sequence 10) the three directions are as computed
\* from the scenario's numbers.
C11_FireDirection ==
    /\ LastWasStep =>
         \A k \in 1..Len(last.log) :
            LET e == last.log[k]
                fire == FireNode(e)
                eff == IF fire.dir.has THEN fire.dir
                       ELSE Doc.bullets[fire.bullet].dir
                v == radians(NumberDef(eff.v, heap[e.f].params))
                A == AimAt(e.x, e.y)
            IN  IsFire(e) =>
                  /\ Shot(e).direction =
                        CASE ~eff.has            -> A
                          [] eff.ty = "aim"      -> v + A
                          [] eff.ty = "sequence" -> v + e.pfd
                          [] eff.ty = "relative" -> v + e.direction
                          [] OTHER               -> v
                  /\ k < Len(last.log) /\ last.log[k + 1].f = e.f
                        => last.log[k + 1].pfd = Shot(e).direction
                  /\ k = Len(last.log)
                        => heap[e.f].previous_fire_direction
                              = Shot(e).direction
    /\ scn.k = "shot" /\ ~Root.vanished /\ RootCalls >= 1 =>
         LET A == AimAt(0, 0)
             v == radians(Float(scn.v))
             d0 == radians(Float(scn.d0))
             first == CASE scn.ty = "aim"      -> v + A
                        [] scn.ty = "sequence" -> v
                        [] scn.ty = "relative" -> v + d0
                        [] scn.ty = "absolute" -> v
                        [] OTHER -> IF scn.w = 1
                                    THEN radians(Float(scn.n)) + d0 ELSE A
             second == IF scn.ty = "sequence" THEN v + first ELSE first
         IN  /\ Len(hist[1][1]) = 3
             /\ hist[1][1][1].direction = first
             /\ hist[1][1][2].direction = second
             /\ hist[1][1][3].direction = second + radians(Float(10))

\* C11 witness: two sequence fires of 30 degrees and the child's sequence
\* fire of 10 degrees gave 30, 60 and 70 degrees, with a target whose aim
\* angle is not 0, and the firing frame took 70 degrees back from its
\* child.
C11_Witness ==
    /\ scn.k = "shot" /\ scn.ty = "sequence" /\ target.has
    /\ LastWasStep /\ last.i = 1 /\ RootCalls = 1
    /\ AimAt(0, 0) # 0
    /\ Len(last.created) = 3
    /\ last.created[1].direction = radians(Float(30))
    /\ last.created[2].direction = radians(Float(60))
    /\ last.created[3].direction = radians(Float(70))
    /\ heap[1].previous_fire_direction = radians(Float(70))

\* C12: a fired bullet's speed is resolved from the FireDef's speed, else
\* the bullet definition's, by type (sequence: value + the frame's
\* previous fire speed, relative: value + the firing bullet's speed,
\* absolute: value; none at all: 1), and the frame's previous fire speed
\* is then that speed.  In the scenario (two fires with the speed under
\* test, then a child frame firing with sequence 2) the three speeds are
\* as computed from the scenario's numbers.
C12_FireSpeed ==
    /\ LastWasStep =>
         \A k \in 1..Len(last.log) :
            LET e == last.log[k]
                fire == FireNode(e)
                eff == IF fire.spd.has THEN fire.spd
                       ELSE Doc.bullets[fire.bullet].spd
                v == NumberDef(eff.v, FireParams(e))
            IN  IsFire(e) /\ Determined(NodeRun(e)) =>
                  /\ Shot(e).speed =
                        CASE ~eff.has            -> Float(1)
                          [] eff.ty = "sequence" -> v + e.pfs
                          [] eff.ty = "relative" -> v + e.speed
                          [] OTHER               -> v
                  /\ k < Len(last.log) /\ last.log[k + 1].f = e.f
                        => last.log[k + 1].pfs = Shot(e).speed
                  /\ k = Len(last.log)
                        => heap[e.f].previous_fire_speed = Shot(e).speed
    /\ scn.k = "pace" /\ ~Root.vanished /\ RootCalls >= 1 =>
         LET v == Float(scn.v)
             first == CASE scn.ty = "sequence" -> v
                        [] scn.ty = "relative" -> v + Float(scn.s0)
                        [] scn.ty = "absolute" -> v
                        [] OTHER -> IF scn.w = 1 THEN Float(scn.n)
                                    ELSE Float(1)
             second == IF scn.ty = "sequence" THEN v + first ELSE first
         IN  /\ Len(hist[1][1]) = 3
             /\ hist[1][1][1].speed = first
             /\ hist[1][1][2].speed = second
             /\ hist[1][1][3].speed = second + Float(2)

\* C12 witness: two relative fires of 3 by a bullet of speed 2 gave the
\* speeds 5 and 5 (not 5 and 8), and the child's sequence fire of 2 gave 7.
C12_Witness ==
    /\ scn.k = "pace" /\ scn.ty = "relative"
    /\ LastWasStep /\ last.i = 1 /\ RootCalls = 1
    /\ last.pre.speed = Float(2)
    /\ Len(last.created) = 3
    /\ last.created[1].speed = Float(5)
    /\ last.created[2].speed = Float(5)
    /\ last.created[3].speed = Float(7)
    /\ heap[1].previous_fire_speed = Float(7)

\* C13 as stated: a relative offset (r, 0) puts the new bullet at distance
\* r from the owner along (sin d, cos d), the way a bullet of direction d
\* moves.
C13_OffsetAlongDirection ==
    scn.k = "offset" /\ scn.ty = "relative" /\ scn.w = 0 /\ LastWasStep =>
       \A k \in 1..Len(last.log) :
          LET e == last.log[k]
              d == radians(Float(scn.n))
          IN  IsFire(e) =>
                /\ Shot(e).x = e.x + Mul(sin(d), Float(scn.v))
                /\ Shot(e).y = e.y + Mul(cos(d), Float(scn.v))

\* C13 amended: a relative offset (ox, oy) puts the new bullet at the
\* owner's position plus (cos d * ox + sin d * oy, sin d * ox - cos d * oy)
\* for the final firing direction d, so the offset (r, 0) displaces it by
\* r along (cos d, sin d): by (r, 0), (0, r), (-r, 0), (0, -r) for d = 0,
\* 90, 180, 270 degrees, at right angles to the motion (sin d, cos d).  An
\* absolute offset displaces it by (ox, oy).
C13_OffsetRotated ==
    scn.k = "offset" /\ LastWasStep =>
       \A k \in 1..Len(last.log) :
          LET e == last.log[k]
              d == radians(Float(scn.n))
              ox == Float(scn.v)
              oy == Float(scn.w)
              dx == Shot(e).x - e.x
              dy == Shot(e).y - e.y
          IN  IsFire(e) =>
                /\ Shot(e).direction = d
                /\ scn.ty = "absolute" => dx = ox /\ dy = oy
                /\ scn.ty = "relative" =>
                      /\ dx = Mul(cos(d), ox) + Mul(sin(d), oy)
                      /\ dy = Mul(sin(d), ox) - Mul(cos(d), oy)
                      /\ scn.w = 0 =>
                            <<dx, dy>> = CASE scn.n = 0   -> <<ox, 0>>
                                           [] scn.n = 90  -> <<0, ox>>
                                           [] scn.n = 180 -> <<0 - ox, 0>>
                                           [] OTHER       -> <<0, 0 - ox>>

\* C13 witness: the second fire, from (0, 2), with direction 0 and the
\* relative offset (2, 0) put the bullet at (2, 2), beside the owner and
\* not ahead of it.
C13_Witness ==
    /\ scn.k = "offset" /\ scn.ty = "relative" /\ scn.w = 0 /\ scn.n = 0
    /\ LastWasStep /\ last.i = 1 /\ RootCalls = 3
    /\ last.pre.x = 0 /\ last.pre.y = Float(2)
    /\ Len(last.created) = 1
    /\ last.created[1].x = Float(2)
    /\ last.created[1].y = Float(2)

\* C14: a ChangeDirection with term <= 0 (absolute, relative or aim) adds
\* to the direction, in the step that runs it, the difference to the
\* intended direction brought into [-PI, PI); the action goes on to its
\* next node in the same step, no interpolation is left pending, and no
\* later step changes the direction.
C14_SnapAtOnce ==
    scn.k = "snap" /\ ~Root.vanished /\ RootCalls >= 1 =>
       /\ Root.direction = radians(Float(scn.d0))
                              + AngleDiff(TurnTarget, radians(Float(scn.d0)))
       /\ AngleDiff(Root.direction, TurnTarget) = 0
       /\ heap[1].direction_frames <= 0
       /\ scn.d0 = 180 /\ scn.v = 0 /\ scn.ty = "absolute"
             => Root.direction = 0
       /\ LastWasStep /\ RootCalls = 1 =>
             /\ Len(last.log) = 2
             /\ last.log[1].op = "changeDirection"
             /\ last.log[1].direction = radians(Float(scn.d0))
             /\ last.log[2].op = "wait"
             /\ last.log[2].f = last.log[1].f
             /\ last.log[2].direction = Root.direction

\* C14 witness: absolute 200 degrees with term 0 from direction 0 turned
\* the bullet to -160 degrees in the first step, and it is still there
\* three steps later.
C14_Witness ==
    /\ scn.k = "snap" /\ scn.ty = "absolute" /\ scn.n = 0
    /\ scn.v = 200 /\ scn.d0 = 0
    /\ ~Root.vanished /\ RootCalls = 4
    /\ Root.direction = radians(Float(-160))

\* C15: with ChangeSpeed(term n > 0) run in step 1, the end of step k
\* (k <= n + 1) holds k - 1 deltas, and from the end of step n + 1 on the
\* speed is the value (absolute), the old speed plus the value (relative)
\* or the old speed plus n times the value (sequence), up to the rounding
\* of the n deltas.  With term <= 0 the speed is the value (absolute) or
\* the old speed plus the value (relative) from step 1 on, and a sequence
\* change leaves the old speed.
C15_SpeedReachesTarget ==
    scn.k = "ramp" /\ ~Root.vanished /\ RootCalls >= 1 =>
       LET old == Float(scn.s0)
           v == Float(scn.v)
           n == scn.n
           delta == CASE scn.ty = "sequence" -> v
                      [] scn.ty = "relative" -> TrueDiv(v, n)
                      [] OTHER               -> TrueDiv(v - old, n)
           final == CASE scn.ty = "sequence" -> old + n * v
                      [] scn.ty = "relative" -> old + v
                      [] OTHER               -> v
       IN  /\ n > 0 /\ RootCalls <= n + 1
                => Root.speed = old + (RootCalls - 1) * delta
           /\ n > 0 /\ RootCalls >= n + 1
                => /\ Root.speed = old + n * delta
                   /\ 2 * Abs(Root.speed - final) <= n
           /\ n <= 0
                => Root.speed = CASE scn.ty = "sequence" -> old
                                  [] scn.ty = "relative" -> old + v
                                  [] OTHER               -> v

\* C15 witness: a relative change of 3 over MaxTerm frames from speed 1,
\* two steps after it ended at speed 4.
C15_Witness ==
    /\ scn.k = "ramp" /\ scn.ty = "relative" /\ scn.n = MaxTerm
    /\ scn.v = 3
    /\ ~Root.vanished /\ RootCalls = scn.n + 3
    /\ Root.speed = Float(4)
    /\ heap[1].speed_frames = 0

\* C16: a step moves the bullet once, after all its actions have stepped
\* (every node of the step ran at the position the bullet had before the
\* call), by mx + sin(direction) * speed and -my + cos(direction) * speed
\* with direction, speed, mx and my as the actions left them.
C16_MovesLast ==
    LastWasStep =>
       /\ After.x = last.pre.x + After.mx
                       + Mul(sin(After.direction), After.speed)
       /\ After.y = last.pre.y - After.my
                       + Mul(cos(After.direction), After.speed)
       /\ \A k \in 1..Len(last.log) :
             last.log[k].x = last.pre.x /\ last.log[k].y = last.pre.y

\* C16 witness: the step that ran ChangeSpeed(absolute 3, term 0) on a
\* bullet of speed 1 and direction 0 moved it by 3.
C16_Witness ==
    /\ scn.k = "ramp" /\ scn.ty = "absolute" /\ scn.n = 0 /\ scn.v = 3
    /\ LastWasStep /\ last.i = 1 /\ RootCalls = 1
    /\ last.pre.speed = Float(1)
    /\ After.speed = Float(3)
    /\ After.y = last.pre.y + Float(3)
    /\ After.x = last.pre.x

\* The frames of the bullets the last step returned.
NewFrames ==
    UNION {{last.created[k].actions[j] :
               j \in 1..Len(last.created[k].actions)} :
           k \in 1..Len(last.created)}

\* C17: a step does not step the bullets it returns.  Each of them is at
\* its spawn position with (px, py) = (x, y) (the owner's position before
\* the step when the fire has no offset), not vanished, and each of its
\* frames is new: pc = -1, not finished, nothing pending, no previous
\* fire; no node the step ran was run by such a frame, and the step
\* returned one bullet per fire node its own frames ran.
C17_SpawnedNotStepped ==
    LastWasStep =>
       /\ \A k \in 1..Len(last.created) :
             LET b == last.created[k]
             IN  /\ b.px = b.x /\ b.py = b.y
                 /\ ~b.vanished /\ ~b.finished
                 /\ b.mx = 0 /\ b.my = 0
                 /\ \A j \in 1..Len(b.actions) :
                       LET fr == heap[b.actions[j]]
                       IN  /\ fr.pc = -1 /\ ~fr.finished
                           /\ fr.wait_frames = 0
                           /\ fr.speed_frames = 0
                           /\ fr.direction_frames = 0
                           /\ fr.accel_frames = 0
                           /\ fr.previous_fire_direction = 0
                           /\ fr.previous_fire_speed = 0
       /\ \A k \in 1..Len(last.log) :
             LET e == last.log[k]
             IN  /\ e.f \notin NewFrames
                 /\ IsFire(e) /\ ~FireNode(e).off.has
                       => Shot(e).x = last.pre.x /\ Shot(e).y = last.pre.y
       /\ Len(last.created)
             = Cardinality({k \in 1..Len(last.log) : IsFire(last.log[k])})

\* C17 witness: a frame with a speed change pending fired a bullet that
\* has an action of its own; the step moved the owner and left the new
\* bullet where the owner was.
C17_Witness ==
    /\ scn.k = "brood"
    /\ LastWasStep /\ last.i = 1 /\ RootCalls = 1
    /\ Len(last.created) = 1
    /\ Len(last.created[1].actions) = 1
    /\ heap[last.created[1].actions[1]].pc = -1
    /\ last.created[1].y = last.pre.y
    /\ After.y # last.pre.y
    /\ \E k \in 1..Len(last.log) :
          IsFire(last.log[k]) /\ heap[last.log[k].f].speed_frames > 0

\* The running frames of bullet j: its active frames and their ancestors.
FramesOf(j) ==
    UNION {Chain(heap, bullets[j].actions[a]) :
              a \in 1..Len(bullets[j].actions)}

\* C18: a step of one bullet, whatever its actions run (a Vanish node of
\* a spawned bullet's action included), leaves every other bullet as it
\* was (vanished flag, active list and all), and leaves every running
\* frame of every other bullet as it was (pc and finished included): the
\* frames of a spawned bullet have no parent among the frames of the
\* bullet that fired it.
C18_VanishStaysInside ==
    [][last'.kind = "step" =>
          \A j \in 1..Len(bullets) :
             j # last'.i =>
                /\ bullets'[j] = bullets[j]
                /\ \A f \in FramesOf(j) : heap'[f] = heap[f]]_vars

\* C18 witness: the spawned bullet ran a Vanish node from a child frame
\* and is vanished; the bullet that fired it is not, and its firing frame
\* is still alive under its parent.
C18_Witness ==
    /\ scn.k = "brood" /\ scn.w = 1
    /\ Len(bullets) = 2
    /\ LastWasStep /\ last.i = 2
    /\ \E k \in 1..Len(last.log) : last.log[k].op = "vanish"
    /\ bullets[2].vanished
    /\ ~Root.vanished
    /\ Len(Root.actions) = 1
    /\ heap[Root.actions[1]].parent # 0
    /\ \A f \in FramesOf(1) : heap[f].pc # PcNone /\ ~heap[f].finished

\* C19 as stated: no call of step() ends in an error.
C19_StepNeverRaises == last.err = ""

\* C19 failing run: the first step of a bullet whose top action is a
\* Repeat(2) around an action with no node raised IndexError.
C19_Witness ==
    /\ scn.k = "fault" /\ scn.w = 0 /\ scn.n = 2
    /\ last.kind = "step" /\ last.i = 1
    /\ last.err = "IndexError"

\* C20 as stated: every call of step() comes to its end with each running
\* action at a suspension point or at the end of its list, also when an
\* action refers to itself; no call uses up the interpreter's stack.
C20_StepTerminates ==
    last.kind = "step" => last.err # "RecursionError"

\* C20 failing run: the first step of an action that refers to itself
\* through a second action pushed frame after frame, each one stepped
\* inside the call that pushed it, until the stack was used up.
C20_Witness ==
    /\ scn.k = "cycle" /\ scn.w = 1
    /\ last.kind = "step" /\ last.i = 1
    /\ last.err = "RecursionError"
    /\ Len(last.log) = MaxDepth + 1
    /\ \A k \in 1..Len(last.log) : last.log[k].op = "action"

\* ------------------------------------------------------------------ C21
\* The bullet's active frames are all finished.
AllFinished(b) == \A i \in 1..Len(b.actions) : heap[b.actions[i]].finished

\* C21 as stated: at the end of every step, finished is true exactly when
\* the bullet is vanished and all of its running actions are finished, so
\* finished is true at the end of the very step in which a Vanish ran.
C21_FinishedIffVanishedDone ==
    LastWasStep => (After.finished <=> After.vanished /\ AllFinished(After))

\* C21 failing run: a Vanish node ran in this step, the bullet ends the
\* step vanished with no running action, and finished is still false
\* (finished starts from the vanished flag read before the actions ran).
C21_Witness ==
    /\ LastWasStep
    /\ \E k \in 1..Len(last.log) : last.log[k].op = "vanish"
    /\ ~last.pre.vanished
    /\ After.vanished /\ After.actions = <<>>
    /\ ~After.finished

\* ------------------------------------------------------------------ C22
\* The node that the logged event e ran.
NodeOf(e) == Doc.actions[heap[e.f].actions][e.pc + 1]

\* The bullets the step created after the logged event e.
FiredAfter(e) == {k \in 1..Len(last.created) : k > e.ncreated}

\* C22 as stated: when an Appearance node with name s ran, the bullet's
\* appearance is s after the step, and the bullets it fired afterwards
\* in the step without an appearance of their own have appearance s.
C22_AppearanceSet ==
    LastWasStep =>
      \A k \in 1..Len(last.log) :
         last.log[k].op = "appearance" =>
            /\ After.appearance = NodeOf(last.log[k]).appearance
            /\ \A j \in 1..Len(last.log) :
                  /\ j > k /\ IsFire(last.log[j])
                  /\ FireNode(last.log[j]).appearance = ""
                  => Shot(last.log[j]).appearance =
                         NodeOf(last.log[k]).appearance

\* C22 failing run: an Appearance "red" node ran in a bullet fired as
\* "blue"; after the step the bullet is still "blue", the name sits in
\* the attribute `apearance`, and the plain bullet it fired next is "blue".
C22_Witness ==
    /\ LastWasStep /\ scn.k = "look" /\ scn.w = 2
    /\ Len(last.log) >= 2
    /\ last.log[1].op = "appearance" /\ IsFire(last.log[2])
    /\ NodeOf(last.log[1]).appearance = "red"
    /\ After.appearance = "blue" /\ After.apearance = "red"
    /\ Shot(last.log[2]).appearance = "blue"

\* ------------------------------------------------------------ the loader
\* BulletML.FromXML on an XML document.  An element is its tag (without
\* the namespace), its label attribute (a string is the sequence of its
\* characters, None is the empty one) and its children; `ns` tells whether
\* the document's tags carry a namespace.  The text of an element is
\* always a well-formed expression here, and a type attribute a valid one.
\* A definition is named by the path of its element: the child indices
\* from the root.
MaxActions == 2

El(tag, label, kids) == [tag |-> tag, label |-> label, kids |-> kids]
Leaf(tag) == El(tag, <<>>, <<>>)

Top == <<"t", "o", "p">>
Labels == {<<>>, Top, Top \o <<"2">>, <<"a">> \o Top, <<"s", "u", "b">>}

\* str.startswith.
startswith(name, prefix) ==
    /\ Len(name) >= Len(prefix)
    /\ SubSeq(name, 1, Len(prefix)) = prefix

\* doc._actions[name] = act on a dict that keeps insertion order: a key
\* it holds keeps its place and takes the new value.
DictSet(items, name, act) ==
    IF \E i \in 1..Len(items) : items[i].name = name
    THEN [i \in 1..Len(items) |->
             IF items[i].name = name THEN [name |-> name, act |-> act]
             ELSE items[i]]
    ELSE Append(items, [name |-> name, act |-> act])

\* BulletML.CONSTRUCTORS, ActionDef.CONSTRUCTORS and the tags the other
\* FromXML methods construct from: the children of an element with tag
\* `tag` that are parsed in turn.
ActionCONSTRUCTORS ==
    {"repeat", "changeSpeed", "changeDirection", "accel", "wait", "vanish",
     "action", "actionRef", "if"}

CONSTRUCTORS(tag) ==
    CASE tag = "bulletml"                 -> {"bullet", "action"}
      [] tag \in {"action", "then", "else"} -> ActionCONSTRUCTORS
      [] tag \in {"repeat", "bullet"}     -> {"action", "actionRef"}
      [] tag = "if"                       -> {"then", "else"}
      [] OTHER                            -> {}

Has(el, tag) == \E i \in 1..Len(el.kids) : el.kids[i].tag = tag

\* The exception that ends an opcode's FromXML when the local variable of
\* a required child was never bound ("" if none): UnboundLocalError is
\* turned into ParseError, except by Accel.FromXML, which catches
\* AttributeError.
Unbound(el) ==
    CASE el.tag = "repeat" ->
             IF Has(el, "times") /\ (Has(el, "action") \/ Has(el, "actionRef"))
             THEN "" ELSE "ParseError"
      [] el.tag = "if" ->
             IF Has(el, "cond") /\ Has(el, "then") THEN "" ELSE "ParseError"
      [] el.tag = "changeDirection" ->
             IF Has(el, "term") /\ Has(el, "direction")
             THEN "" ELSE "ParseError"
      [] el.tag = "changeSpeed" ->
             IF Has(el, "term") /\ Has(el, "speed") THEN "" ELSE "ParseError"
      [] el.tag = "accel" ->
             IF Has(el, "term") THEN "" ELSE "UnboundLocalError"
      [] OTHER -> ""

\* The end of an element's FromXML, after its children were parsed into
\* q: the check of the required children, then the registration of an
\* action definition (ActionDef.FromXML, also reached for then and else)
\* or of an action reference.
Constructed(q, el, path) ==
    IF q.err # "" THEN q
    ELSE IF Unbound(el) # "" THEN [q EXCEPT !.err = Unbound(el)]
    ELSE IF el.tag \in {"action", "then", "else"}
         THEN [q EXCEPT !.actions = DictSet(@, el.label, path)]
    ELSE IF el.tag = "actionRef"
         THEN [q EXCEPT !.action_refs = Append(@, el.label)]
    ELSE q

RECURSIVE ElementFromXML(_, _, _)
RECURSIVE SubElements(_, _, _, _)

\* for subelem in list(element): the children from the i-th on.
SubElements(q, el, path, i) ==
    IF q.err # "" \/ i > Len(el.kids) THEN q
    ELSE SubElements(IF el.kids[i].tag \in CONSTRUCTORS(el.tag)
                     THEN ElementFromXML(q, el.kids[i], Append(path, i))
                     ELSE q,
                     el, path, i + 1)

\* X.FromXML(doc, element) for the class X of the element's tag.
ElementFromXML(q, el, path) ==
    Constructed(SubElements(q, el, path, 1), el, path)

IsTop(item) == item.name # <<>> /\ startswith(item.name, Top)

Failed(e) == [err |-> e, actions |-> <<>>, done |-> TRUE]

\* The end of BulletML.FromXML: the references are resolved (KeyError
\* becomes ParseError) and the top actions selected.
Resolved(q) ==
    IF q.err # "" THEN Failed(q.err)
    ELSE IF \E i \in 1..Len(q.action_refs) :
               \A j \in 1..Len(q.actions) :
                  q.actions[j].name # q.action_refs[i]
         THEN Failed("ParseError")
    ELSE [err |-> "", done |-> TRUE,
          actions |-> [i \in 1..Len(SelectSeq(q.actions, IsTop)) |->
                          SelectSeq(q.actions, IsTop)[i].act]]

\* BulletML.FromXML(source).  realtag raises IndexError on a tag without
\* namespace (rsplit yields one piece; only ValueError is caught).
BulletMLFromXML(src) ==
    IF ~src.ns /\ src.kids # <<>> THEN Failed("IndexError")
    ELSE Resolved(SubElements([actions |-> <<>>, action_refs |-> <<>>,
                               err |-> ""],
                              El("bulletml", <<>>, src.kids), <<>>, 1))

\* The documents loaded: up to MaxActions actions under the root, each
\* with a label (or none) and possibly an action nested in it; and one
\* top action holding one opcode with any choice of its children.
ActionElements ==
    {El("action", l, <<Leaf("wait")>>) : l \in Labels}
    \cup {El("action", l, <<El("action", m, <<Leaf("wait")>>),
                            Leaf("vanish")>>) : l, m \in Labels}

Pick(tag, on) == IF on THEN <<Leaf(tag)>> ELSE <<>>

OpcodeElements ==
    {El("repeat", <<>>,
        Pick("times", t) \o Pick("action", x) \o Pick("actionRef", y)) :
        t, x, y \in BOOLEAN}
    \cup {El("if", <<>>,
             Pick("cond", t) \o Pick("then", x) \o Pick("else", y)) :
             t, x, y \in BOOLEAN}
    \cup {El("changeDirection", <<>>,
             Pick("term", t) \o Pick("direction", x)) : t, x \in BOOLEAN}
    \cup {El("changeSpeed", <<>>,
             Pick("term", t) \o Pick("speed", x)) : t, x \in BOOLEAN}
    \cup {El("accel", <<>>,
             Pick("term", t) \o Pick("horizontal", x)
                 \o Pick("vertical", y)) : t, x, y \in BOOLEAN}

RECURSIVE Lists(_, _)
Lists(S, n) ==
    IF n = 0 THEN {<<>>}
    ELSE Lists(S, n - 1)
         \cup {Append(l, e) : l \in Lists(S, n - 1), e \in S}

Sources ==
    {[ns |-> n, kids |-> k] :
        n \in BOOLEAN,
        k \in Lists(ActionElements, MaxActions)
              \cup {<<El("action", Top, <<op>>), El("action", <<>>, <<>>)>> :
                       op \in OpcodeElements}}

LoadInit ==
    /\ source \in Sources
    /\ loaded = NotLoaded
    /\ CollisionIdle
    /\ scn = Scn("vanish", 0, 0, 0, "", 0, 1)
    /\ target = NoTarget
    /\ heap = <<>>
    /\ bullets = <<>>
    /\ last = [kind |-> "init", i |-> 1, pre |-> Bullet(0, 0, 0, 0, <<>>),
               created |-> <<>>, log |-> <<>>, err |-> ""]
    /\ hist = <<>>
    /\ turn = 1
    /\ rnd = NoDraws

\* The host calls BulletML.FromXML(source).
FromXML ==
    /\ ~loaded.done
    /\ loaded' = BulletMLFromXML(source)
    /\ UNCHANGED <<source, hostVars, collisionVars>>

LoadNext == FromXML

LoadSpec == LoadInit /\ [][LoadNext]_vars

\* ------------------------------------------------------------------ C23
\* The action definitions of a document whose label starts with "top",
\* by path, in the order in which they appear in the document.
RECURSIVE TopDefinitions(_, _)
RECURSIVE TopDefinitionsFrom(_, _, _)
TopDefinitionsFrom(el, path, i) ==
    IF i > Len(el.kids) THEN <<>>
    ELSE TopDefinitions(el.kids[i], Append(path, i))
         \o TopDefinitionsFrom(el, path, i + 1)

TopDefinitions(el, path) ==
    (IF el.tag = "action" /\ startswith(el.label, Top)
     THEN <<path>> ELSE <<>>)
    \o TopDefinitionsFrom(el, path, 1)

TopsOf(src) == TopDefinitionsFrom(El("bulletml", <<>>, src.kids), <<>>, 1)

\* C23 as stated: after a load, the top-action list holds exactly the
\* action definitions whose label starts with "top", each once, in the
\* order of the document, nested and equally labelled ones included.
C23_TopActionsInDocumentOrder ==
    loaded.done /\ loaded.err = "" => loaded.actions = TopsOf(source)

\* C23 failing run: an action "top" holding an action "top2" was loaded;
\* the list has the nested definition first.
C23_Witness ==
    /\ loaded.done /\ loaded.err = ""
    /\ Len(source.kids) = 1
    /\ TopsOf(source) = << <<1>>, <<1, 1>> >>
    /\ loaded.actions = << <<1, 1>>, <<1>> >>

\* ------------------------------------------------------------------ C24
\* The opcode element lacks a child the format requires of it.
Incomplete(el) ==
    \/ el.tag = "if" /\ ~(Has(el, "cond") /\ Has(el, "then"))
    \/ el.tag = "repeat"
         /\ ~(Has(el, "times") /\ (Has(el, "action") \/ Has(el, "actionRef")))
    \/ el.tag = "changeDirection"
         /\ ~(Has(el, "term") /\ Has(el, "direction"))
    \/ el.tag = "changeSpeed" /\ ~(Has(el, "term") /\ Has(el, "speed"))
    \/ el.tag = "accel"
         /\ ~(Has(el, "term")
              /\ (Has(el, "horizontal") \/ Has(el, "vertical")))

\* The opcode of a document made of one top action holding one opcode.
OpcodeOf(src) == src.kids[1].kids[1]
HoldsOpcode(src) ==
    /\ Len(src.kids) = 2 /\ Len(src.kids[1].kids) = 1
    /\ src.kids[1].kids[1] \in OpcodeElements

\* C24 as stated: loading a document in which an opcode lacks a required
\* child ends in ParseError, in no other error and never in a loaded
\* document.
C24_MissingChildIsParseError ==
    loaded.done /\ HoldsOpcode(source) /\ Incomplete(OpcodeOf(source))
    => loaded.err = "ParseError"

\* C24 failing run: a namespaced document whose Accel has a term and
\* neither horizontal nor vertical was loaded without any error.
C24_Witness ==
    /\ loaded.done /\ source.ns /\ HoldsOpcode(source)
    /\ OpcodeOf(source) = El("accel", <<>>, <<Leaf("term")>>)
    /\ loaded.err = "" /\ loaded.actions = << <<1>> >>

\* ------------------------------------------------------------------ C25
\* The exception, if any, that evaluating the expressions of the node of
\* the logged event e raises, with the params of the frame that ran it.
EvalError(e) == OpError(NodeOf(e), heap[e.f].params)

\* C25 as stated: when the evaluation of an expression fails during a
\* step (a division by zero, a $N beyond the params vector), the step
\* ends in ExprError.
C25_EvalFailsAsExprError ==
    last.kind = "step" =>
      \A k \in 1..Len(last.log) :
         EvalError(last.log[k]) # "" => last.err = "ExprError"

\* C25 failing run: a wait for 1/($1-1) frames ran with params (1); the
\* step ended in ZeroDivisionError.
C25_Witness ==
    /\ last.kind = "step" /\ Len(last.log) = 1
    /\ NodeOf(last.log[1]).term.k = "recip"
    /\ heap[last.log[1].f].params = <<Float(1)>>
    /\ EvalError(last.log[1]) = "ZeroDivisionError"
    /\ last.err = "ZeroDivisionError"

\* -------------------------------------------------- bulletml/collision.py
\* overlaps(a, b) and collides(a, b) on objects with integer positions
\* and radii.  The program divides floats; here t is kept as the fraction
\* n / d and the last comparison is multiplied through by d * d, which
\* is exact.
MaxCoord == 2
MaxRadius == 1

\* A faulty overlaps that leaves the boundary out; C26 tells the two apart.
overlapsInside(a, b) ==
    (a.x - b.x) * (a.x - b.x) + (a.y - b.y) * (a.y - b.y)
        < (a.radius + b.radius) * (a.radius + b.radius)

overlaps(a, b) ==
    LET dx == a.x - b.x
        dy == a.y - b.y
        radius == a.radius + b.radius
    IN  dx * dx + dy * dy <= radius * radius

\* t = n / d clamped to [0, 1], as a numerator over d (d > 0).
Clamped(n, d) == IF n < 0 THEN 0 ELSE IF n > d THEN d ELSE n

collides(a, b) ==
    LET radius == a.radius + b.radius
        dir_x == a.px + (b.x - a.x) - b.px
        dir_y == a.py + (b.y - a.y) - b.py
        diff_x == a.px - b.px
        diff_y == a.py - b.py
        d == dir_x * dir_x + dir_y * dir_y
        t == Clamped(diff_x * dir_x + diff_y * dir_y, d)
        dist_x == a.px * d - (b.px * d + dir_x * t)
        dist_y == a.py * d - (b.py * d + dir_y * t)
    IN  IF dir_x = 0 /\ dir_y = 0
        THEN diff_x * diff_x + diff_y * diff_y < radius * radius
        ELSE dist_x * dist_x + dist_y * dist_y <= radius * radius * d * d

\* The objects tested: positions are taken relative to a's previous
\* position; b ends anywhere around it.
Objects ==
    {[x |-> x, y |-> y, px |-> 0, py |-> 0, radius |-> 1] :
        x, y \in 0..MaxCoord}

Others ==
    {[x |-> x, y |-> y, px |-> px, py |-> py, radius |-> r] :
        x, y \in (0 - MaxCoord)..MaxCoord, px, py \in 0..MaxCoord,
        r \in 0..MaxRadius}

CollisionInit ==
    /\ objA \in Objects
    /\ objB \in Others
    /\ verdict = NoVerdict
    /\ LoadIdle
    /\ scn = Scn("vanish", 0, 0, 0, "", 0, 1)
    /\ target = NoTarget
    /\ heap = <<>>
    /\ bullets = <<>>
    /\ last = [kind |-> "init", i |-> 1, pre |-> Bullet(0, 0, 0, 0, <<>>),
               created |-> <<>>, log |-> <<>>, err |-> ""]
    /\ hist = <<>>
    /\ turn = 1
    /\ rnd = NoDraws

\* The host calls overlaps(a, b).
Overlaps ==
    /\ verdict = NoVerdict
    /\ verdict' = [of |-> "overlaps", is |-> overlaps(objA, objB)]
    /\ UNCHANGED <<objA, objB, hostVars, loadVars>>

\* The host calls collides(a, b).
Collides ==
    /\ verdict = NoVerdict
    /\ verdict' = [of |-> "collides", is |-> collides(objA, objB)]
    /\ UNCHANGED <<objA, objB, hostVars, loadVars>>

CollisionNext == Overlaps \/ Collides

CollisionSpec == CollisionInit /\ [][CollisionNext]_vars

\* ------------------------------------------------------------------ C26
DistSq(x1, y1, x2, y2) == (x1 - x2) * (x1 - x2) + (y1 - y2) * (y1 - y2)
RadiusSq == (objA.radius + objB.radius) * (objA.radius + objB.radius)

\* C26: overlaps(a, b) is true exactly when the squared distance of the
\* centres is at most the square of the sum of the radii (two radius-1
\* circles at distance exactly 2 overlap), and overlaps(b, a) is the same.
C26_OverlapsInclusive ==
    verdict.of = "overlaps" =>
       /\ verdict.is <=>
              DistSq(objA.x, objA.y, objB.x, objB.y) <= RadiusSq
       /\ verdict.is <=> overlaps(objB, objA)

\* C26 witness: two radius-1 circles at distance exactly 2 were found to
\* overlap.
C26_Witness ==
    /\ verdict.of = "overlaps" /\ verdict.is
    /\ objA.radius = 1 /\ objB.radius = 1
    /\ DistSq(objA.x, objA.y, objB.x, objB.y) = 4

\* ------------------------------------------------------------------ C27
\* b's motion relative to a during the frame, and where a started
\* relative to b.
RelMove == [x |-> (objB.x - objB.px) - (objA.x - objA.px),
            y |-> (objB.y - objB.py) - (objA.y - objA.py)]
RelStart == [x |-> objA.px - objB.px, y |-> objA.py - objB.py]
Dot(u, v) == u.x * v.x + u.y * v.y

\* The least distance of the centres during the frame is at most the sum
\* of the radii: at the start, at the end, or at the point of closest
\* approach when that lies within the frame (there the squared distance
\* is (|s|^2 |m|^2 - (s.m)^2) / |m|^2).
CloseDuringFrame ==
    \/ Dot(RelStart, RelStart) <= RadiusSq
    \/ DistSq(objA.x, objA.y, objB.x, objB.y) <= RadiusSq
    \/ /\ 0 < Dot(RelStart, RelMove)
       /\ Dot(RelStart, RelMove) < Dot(RelMove, RelMove)
       /\ Dot(RelStart, RelStart) * Dot(RelMove, RelMove)
            - Dot(RelStart, RelMove) * Dot(RelStart, RelMove)
          <= RadiusSq * Dot(RelMove, RelMove)

\* C27 as stated: collides(a, b) is true exactly when the least distance
\* of the centres during the frame is at most the sum of the radii,
\* boundary included, also without relative motion.
C27_CollidesInclusive ==
    verdict.of = "collides" => (verdict.is <=> CloseDuringFrame)

\* C27 failing run: two radius-1 circles that keep a distance of exactly
\* 2 during the frame (no relative motion) were found not to collide.
C27_Witness ==
    /\ verdict.of = "collides" /\ ~verdict.is
    /\ objA.radius = 1 /\ objB.radius = 1
    /\ RelMove = [x |-> 0, y |-> 0]
    /\ Dot(RelStart, RelStart) = 4
    /\ overlaps(objA, objB)

\* ------------------------------------------------------------------ C28
\* The top-level frame of the chain of frame f in heap h.
RootOf(h, f) == CHOOSE g \in Chain(h, f) : h[g].parent = 0

\* The active list of bullet b in heap h is well formed: no frame is in
\* it twice or together with one of its ancestors, and the frame in a
\* slot has no child that is still running (a pushed child holds the
\* slot until it finishes).
Slotted(h, b) ==
    /\ \A i, k \in 1..Len(b.actions) :
          i # k => b.actions[i] \notin Chain(h, b.actions[k])
    /\ \A i \in 1..Len(b.actions) : \A g \in 1..Len(h) :
          h[g].parent = b.actions[i] => h[g].finished

\* C28: until a bullet vanishes its active list keeps its length, and
\* slot i keeps holding one frame of the chain of the top-level frame it
\* held at construction: the list is well formed at construction and
\* after every step, and no step changes the root of a slot.
C28_SlotsKeepTheirChain ==
    /\ \A j \in 1..Len(bullets) :
          /\ Slotted(heap, bullets[j])
          /\ \A i \in 1..Len(bullets[j].actions) :
                heap[bullets[j].actions[i]].parent = 0
    /\ [][\A j \in 1..Len(bullets') :
             ~bullets'[j].vanished =>
                /\ Slotted(heap', bullets'[j])
                /\ IF j <= Len(bullets)
                   THEN /\ Len(bullets'[j].actions) = Len(bullets[j].actions)
                        /\ \A i \in 1..Len(bullets[j].actions) :
                              RootOf(heap', bullets'[j].actions[i])
                                  = RootOf(heap, bullets[j].actions[i])
                   ELSE \A i \in 1..Len(bullets'[j].actions) :
                           heap'[bullets'[j].actions[i]].parent = 0]_vars

\* C28 witness: a bullet with two slots, not vanished; a child of the
\* first top-level frame finished and gave the slot back, and the slot
\* now holds a child pushed later; the second slot is back with its
\* top-level frame.
C28_Witness ==
    /\ LastWasStep /\ ~Root.vanished
    /\ Len(Root.actions) = 2
    /\ \E g \in 1..Len(heap) : heap[g].parent = 1 /\ heap[g].finished
    /\ Cardinality(Chain(heap, Root.actions[1])) = 2
    /\ RootOf(heap, Root.actions[1]) = 1
    /\ Root.actions[2] = 2 /\ heap[2].finished

\* ------------------------------------------------------------------ C29
\* C29 as stated (its first half): in every reachable state the repeat
\* count of every frame is at least 0, whatever the Repeat's times
\* evaluates to.
C29_RepeatNeverNegative ==
    \A f \in 1..Len(heap) : heap[f].repeat >= 0

\* C29 failing run: Repeat(-1, [fire]) pushed a frame with repeat = -1,
\* which ran its body once and finished with repeat = -2.
C29_Witness ==
    /\ scn.k = "repeat" /\ scn.n = -1 /\ scn.w = 1
    /\ LastWasStep /\ RootCalls = 1
    /\ Len(last.log) = 2
    /\ last.log[1].op = "repeat" /\ last.log[2].op = "fire"
    /\ heap[2].parent = 1 /\ heap[2].finished
    /\ heap[2].repeat = -2

\* ------------------------------------------------------------------ C30
\* A frame counter after one more frame.
Down(n) == IF n > 0 THEN n - 1 ELSE n

\* The frames the stepped bullet held at the start of the step that were
\* waiting then.
Waiting == {f \in 1..Len(heap) :
               /\ \E i \in 1..Len(bullets[last'.i].actions) :
                     bullets[last'.i].actions[i] = f
               /\ heap[f].wait_frames > 0}

\* The step ran none of the opcodes of frame f and applied its pending
\* interpolations.
Idled(f) ==
    /\ \A k \in 1..Len(last'.log) : last'.log[k].f # f
    /\ heap'[f].speed_frames = Down(heap[f].speed_frames)
    /\ heap'[f].direction_frames = Down(heap[f].direction_frames)
    /\ heap'[f].accel_frames = Down(heap[f].accel_frames)
    /\ (/\ heap[f].speed_frames > 0
        /\ \A k \in 1..Len(last'.log) : last'.log[k].op # "changeSpeed"
        /\ \A i \in 1..Len(bullets[last'.i].actions) :
              bullets[last'.i].actions[i] # f
                  => heap[bullets[last'.i].actions[i]].speed_frames = 0)
       => bullets'[last'.i].speed = bullets[last'.i].speed + heap[f].speed

\* The step left the pc of frame f alone and counted its wait down by one.
Frozen(f) ==
    /\ heap'[f].pc = heap[f].pc
    /\ heap'[f].wait_frames = heap[f].wait_frames - 1

\* In the documents that wait n frames in step 1 and then fire, the fire
\* runs in step 1 + n + 1, or in step 2 when n <= 0.
FiresAfterWait ==
    LastWasStep /\ scn.k = "hold" /\ last.i = 1 /\ ~After.vanished =>
       ((\E k \in 1..Len(last.log) : last.log[k].op = "fire")
           <=> RootCalls = (IF scn.n >= 1 THEN scn.n ELSE 0) + 2)

\* C30 as stated: a step leaves every action that has wait_frames > 0 at
\* its start with no opcode executed, its pc unchanged and wait_frames one
\* less, its interpolations applied; the opcode after Wait(n) runs in step
\* k + n + 1 (k + 1 for n <= 0).
C30_WaitFreezes ==
    /\ []FiresAfterWait
    /\ [][last'.kind = "step" /\ last'.err = ""
            => \A f \in Waiting : Idled(f) /\ Frozen(f)]_vars

\* C30, corrected: the same, the pc and wait_frames part for the steps in
\* which the bullet does not vanish (a Vanish run by another action of
\* the bullet kills the waiting action: pc becomes None and wait_frames
\* stays).
C30_WaitFreezesUnlessVanished ==
    /\ []FiresAfterWait
    /\ [][last'.kind = "step" /\ last'.err = ""
            => \A f \in Waiting :
                  /\ Idled(f)
                  /\ ~bullets'[last'.i].vanished => Frozen(f)]_vars

\* C30 witness: in step 5 the fire after Wait(3) ran; the speed change
\* went on while the action waited.
C30_Witness ==
    /\ LastWasStep /\ scn.k = "hold" /\ scn.n = 3 /\ scn.v = 0
    /\ last.i = 1 /\ RootCalls = 5
    /\ Len(last.log) = 1 /\ last.log[1].op = "fire"
    /\ last.pre.speed = Float(1) + Float(3)
    /\ After.speed = Float(1) + Float(4)

\* ------------------------------------------------------------------ C31
\* The fire/movement state of a frame: the ten fields of copy_state.
Motion(a) ==
    <<a.direction, a.direction_frames, a.aiming, a.speed, a.speed_frames,
      a.mx, a.my, a.accel_frames, a.previous_fire_direction,
      a.previous_fire_speed>>

\* The same state one application of each pending interpolation later.
MotionDown(a) ==
    <<a.direction, Down(a.direction_frames), a.aiming, a.speed,
      Down(a.speed_frames), a.mx, a.my, Down(a.accel_frames),
      a.previous_fire_direction, a.previous_fire_speed>>

\* The frames the step created, and the frames that finished in it.
PushedNow == {f \in (Len(heap) + 1)..Len(heap') : heap'[f].parent # 0}
FinishedNow ==
    {f \in 1..Len(heap') :
        /\ heap'[f].finished /\ heap'[f].parent # 0
        /\ f <= Len(heap) => ~heap[f].finished}

\* The positions of the step's log at which frame f ran an opcode.
RanAt(f) == {k \in 1..Len(last'.log) : last'.log[k].f = f}

\* The child f finished in the step: its parent holds the child's
\* fire/movement state; the parent's pc, wait_frames, repeat and params
\* are what they were before the step, or, when the parent pushed f in
\* this step, its pc is still at the node that pushed f.
Adopted(f) ==
    LET p == heap'[f].parent
    IN  /\ Motion(heap'[p]) = Motion(heap'[f])
        /\ heap'[p].wait_frames = 0
        /\ ~heap'[p].finished
        /\ p <= Len(heap) => heap'[p].params = heap[p].params
        /\ RanAt(p) = {} =>
              /\ heap'[p].pc = heap[p].pc
              /\ heap'[p].wait_frames = heap[p].wait_frames
              /\ heap'[p].repeat = heap[p].repeat
        /\ \A k \in RanAt(p) :
              /\ last'.log[k].pc <= heap'[p].pc
              /\ (\A j \in RanAt(p) : j <= k) =>
                    /\ last'.log[k].pc = heap'[p].pc
                    /\ last'.log[k].op \in {"action", "repeat", "if"}
                    /\ \A j \in RanAt(f) : k < j

\* The child f was pushed in the step and neither it nor a child of it has
\* set or handed back a fire/movement field since.
Untouched(f) ==
    /\ ~heap'[f].finished
    /\ \A c \in 1..Len(heap') : heap'[c].parent = f => ~heap'[c].finished
    /\ \A k \in RanAt(f) :
          last'.log[k].op \in {"wait", "action", "repeat", "if"}

\* C31: when a child frame finishes at the end of its list with its repeat
\* count exhausted, its parent holds the child's ten fire/movement fields
\* before it runs any further opcode, and keeps its own pc, wait_frames,
\* repeat and params; a newly pushed child starts with its parent's ten
\* fields (seen after the child's first step, which has applied each
\* pending interpolation once).
C31_ParentAdoptsChildState ==
    [][last'.kind = "step" /\ last'.err = "" /\ ~bullets'[last'.i].vanished
         => /\ \A f \in FinishedNow : Adopted(f)
            /\ \A f \in PushedNow :
                  Untouched(f) =>
                      Motion(heap'[f]) = MotionDown(heap'[heap'[f].parent])]_vars

\* C31 witness: the child of the top action has finished; the top action
\* holds the acceleration the child armed and the child's sequence fire
\* state, and is still at the node that pushed the child.
C31_Witness ==
    /\ LastWasStep /\ scn.k = "nest" /\ scn.w = 0 /\ scn.n = 6
    /\ Len(heap) >= 2 /\ heap[2].parent = 1 /\ heap[2].finished
    /\ ~heap[1].finished /\ heap[1].pc = 2
    /\ heap[1].mx = Float(1) /\ heap[1].accel_frames = 1
    /\ heap[1].previous_fire_direction = radians(Float(10))
    /\ heap[1].speed_frames = 1
    /\ Motion(heap[1]) = Motion(heap[2])

\* ------------------------------------------------------------------ C32
\* The ops after which an action's step stops for the frame.
Suspending == {"wait", "vanish", "action", "repeat", "if"}

\* Frame c ran in the step up to a suspension point: it finished, or the
\* last opcode it ran suspends.
RanToSuspension(c) ==
    \/ heap'[c].finished
    \/ /\ RanAt(c) # {}
       /\ \A k \in RanAt(c) :
             (\A j \in RanAt(c) : j <= k) => last'.log[k].op \in Suspending

\* The push at position k of the step's log, by frame p: a child of p
\* was created, it ran next and up to a suspension point, and p ran
\* nothing more.
PushSuspends(k, p) ==
    /\ \A j \in RanAt(p) : j <= k
    /\ \E c \in PushedNow :
          /\ heap'[c].parent = p
          /\ last'.log[k].active[Index(last'.log[k].active, p)] = p
          /\ Doc.actions[heap'[c].actions] # <<>> =>
                k < Len(last'.log) /\ last'.log[k + 1].f = c
          /\ RanToSuspension(c)

\* C32: in the step in which an ActionDef, ActionRef or Repeat node runs,
\* the pushed child runs up to its first suspension point and the parent
\* runs no further opcode, even when the child finished in that step; the
\* parent runs an opcode only in steps at whose start every child of it
\* has finished.
C32_PushSuspendsParent ==
    [][last'.kind = "step" /\ last'.err = ""
         => \A k \in 1..Len(last'.log) :
               /\ last'.log[k].op \in {"action", "repeat"}
                     => PushSuspends(k, last'.log[k].f)
               /\ \A c \in 1..Len(heap) :
                     heap[c].parent = last'.log[k].f => heap[c].finished]_vars

\* C32 witness: the top action pushed an empty child in step 3, which
\* finished at once; its fire ran in step 4 and not before.
C32_Witness ==
    /\ LastWasStep /\ scn.k = "nest" /\ scn.w = 4
    /\ last.i = 1 /\ RootCalls = 4
    /\ Len(heap) = 2 /\ heap[2].parent = 1 /\ heap[2].finished
    /\ Len(last.log) = 1 /\ last.log[1].op = "fire" /\ last.log[1].f = 1
    /\ Len(hist[1][3]) = 0 /\ Len(hist[1][4]) = 1

\* ------------------------------------------------------------------ C33
\* The condition of the "branch" documents rounds to a non-zero integer:
\* the literal n is not 0, or 1/(4 - n) is 1 or -1.
CondHolds == IF scn.v = 1 THEN Abs(4 - scn.n) = 1 ELSE scn.n # 0

\* The speeds of the bullets the last step returned.
SpeedsFired == [j \in 1..Len(last.created) |-> last.created[j].speed]

\* The ops of the last step's log, with the frames that ran them.
Ran == [k \in 1..Len(last.log) |-> <<last.log[k].f, last.log[k].op>>]

\* C33: an If runs its then branch exactly when its condition, rounded to
\* an integer, is non-zero (negative included), else its else branch if
\* there is one.  The branch is pushed as a child frame and the enclosing
\* action suspends; when no branch runs nothing is pushed and the
\* enclosing action goes on to its next opcode in the same step.
C33_IfBranches ==
    LastWasStep /\ scn.k = "branch" /\ last.i = 1 /\ RootCalls = 1
    /\ ~last.pre.vanished =>
       IF CondHolds \/ scn.w = 1
       THEN /\ Len(heap) = 2 /\ heap[2].parent = 1 /\ Root.actions = <<2>>
            /\ heap[2].actions = (IF CondHolds THEN "yes" ELSE "no")
            /\ SpeedsFired = <<Float(IF CondHolds THEN 1 ELSE 2)>>
            /\ Ran = << <<1, "if">>, <<2, "fire">>, <<2, "wait">> >>
            /\ heap[1].pc = 0 /\ ~heap[1].finished
       ELSE /\ Len(heap) = 1 /\ Root.actions = <<1>>
            /\ SpeedsFired = <<Float(9)>>
            /\ Ran = << <<1, "if">>, <<1, "fire">> >>
            /\ heap[1].finished

\* C33 witness: the condition -1 ran the then branch, though an else
\* branch exists.
C33_Witness ==
    /\ LastWasStep /\ scn.k = "branch" /\ last.i = 1 /\ RootCalls = 1
    /\ scn.v = 0 /\ scn.n = -1 /\ scn.w = 1
    /\ heap[2].actions = "yes" /\ SpeedsFired = <<Float(1)>>

\* ------------------------------------------------------------------ C34
\* The last step was the final frame of the aim-type ChangeDirection of a
\* "turn" document: the step that brings direction_frames to 0.
FinalAimFrame ==
    /\ LastWasStep /\ scn.k = "turn" /\ scn.ty = "aim" /\ last.i = 1
    /\ RootCalls = scn.n + 1 /\ ~last.pre.vanished
    /\ heap[1].aiming /\ heap[1].direction_frames = 0

\* C34 as stated: on the final frame of an aim-type ChangeDirection the
\* amount added to the direction is owner.aim - owner.direction, so that
\* the direction is the aim angle towards the target at that frame.
C34_FinalFrameHomes ==
    FinalAimFrame =>
       /\ After.direction - last.pre.direction
             = aim(last.pre) - last.pre.direction
       /\ After.direction = aim(last.pre)

\* C34 failing run: ChangeDirection(aim 0, term 1) from direction 135
\* degrees with the target at (3, 4): the final frame adds the aim angle
\* to the direction, which ends at 135 degrees plus the aim angle.
C34_Witness ==
    /\ FinalAimFrame /\ scn.n = 1 /\ scn.v = 0 /\ scn.d0 = 135
    /\ target.has /\ target.x = Float(3)
    /\ last.pre.direction = radians(Float(135))
    /\ aim(last.pre) # 0
    /\ After.direction = last.pre.direction + aim(last.pre)

\* ------------------------------------------------------------------ C35
\* The step of the "axes" documents that runs the one-axis Accel of term
\* scn.n, and the last step being one of the scn.n steps that follow it.
AxesArmedAt == IF scn.w = 0 THEN 1 ELSE 4
AfterOneAxisAccel ==
    /\ LastWasStep /\ scn.k = "axes" /\ last.i = 1 /\ ~last.pre.vanished
    /\ RootCalls > AxesArmedAt /\ RootCalls <= AxesArmedAt + scn.n

\* C35 as stated: an Accel that gives only a horizontal value, with term
\* n > 0, leaves my unchanged in each of the n following steps, and one
\* that gives only a vertical value leaves mx unchanged, whatever Accel
\* nodes the frame chain ran before.
C35_AxesIndependent ==
    AfterOneAxisAccel =>
       IF scn.w = 2 THEN After.mx = last.pre.mx /\ After.my # last.pre.my
       ELSE After.my = last.pre.my /\ After.mx # last.pre.mx

\* C35 failing run: Accel(vertical relative 4, term 1), Wait(2),
\* Accel(horizontal relative 2, term 2): in the step after the second
\* Accel, my grows by 4 again while mx grows by 1.
C35_Witness ==
    /\ AfterOneAxisAccel /\ scn.w = 1 /\ scn.n = 2 /\ RootCalls = 5
    /\ last.pre.mx = 0 /\ After.mx = Float(1)
    /\ last.pre.my = Float(4) /\ After.my = Float(8)
    /\ heap[1].my = Float(4) /\ heap[1].accel_frames = 1

\* ------------------------------------------------------------------ C36
\* The last step was a step of the root bullet of a "nest" document, whose
\* single slot holds a speed change of 1 per frame from step 1 on.
NestStep ==
    LastWasStep /\ scn.k = "nest" /\ last.i = 1 /\ ~last.pre.vanished

\* C36 as stated: within one step the interpolation of a frame chain is
\* applied at most once; the speed changes by at most one stored delta per
\* step and slot, also in a step in which the frame pushes a child or a
\* child finishes.
C36_OneDeltaPerStep ==
    NestStep => After.speed - last.pre.speed \in {0, Float(1)}

\* C36 failing run: in step 3 the top action applies the delta and pushes
\* a child, which copies the counter and, stepped in the same call,
\* applies the delta again: the speed grows by 2.
C36_Witness ==
    /\ NestStep /\ scn.n = 6 /\ scn.w = 0 /\ RootCalls = 3
    /\ \E k \in 1..Len(last.log) :
          last.log[k].op = "action" /\ last.log[k].f = 1
    /\ \A k \in 1..Len(last.log) : last.log[k].op # "changeSpeed"
    /\ After.speed = last.pre.speed + Float(2)
    /\ heap[1].speed_frames = 4 /\ heap[2].speed_frames = 3

\* ------------------------------------------------------------------ C37
\* The frame that holds the single slot of the root bullet.
Holder == heap[Root.actions[1]]

\* The root bullet of a "nest" document has run its ChangeSpeed (relative
\* scn.n over scn.n frames) and has not vanished.
NestArmed ==
    /\ scn.k = "nest" /\ last.err = "" /\ RootCalls >= 1 /\ ~Root.vanished

\* The child's Accel (relative 3 over 3 frames) has run and no second
\* Accel re-armed it.
NestAccelArmed ==
    /\ NestArmed /\ scn.w \in {0, 2, 3}
    /\ \E f \in 1..Len(heap) : heap[f].actions = "sub"

\* C37: an interpolation armed with term n > 0 is applied exactly n times
\* in total, however many child frames are pushed and finish meanwhile
\* (no re-arming, no vanish): what has been applied and what the frame
\* holding the slot still has to apply always add up to the armed change,
\* and after n steps at most nothing is left to apply.
C37_AppliedExactlyNTimes ==
    /\ NestArmed =>
          /\ Root.speed + Holder.speed_frames * Holder.speed
                = Float(scn.s0) + Float(scn.n)
          /\ Holder.speed = Float(1)
          /\ Holder.speed_frames \in 0..scn.n
          /\ RootCalls >= scn.n + 1 => Holder.speed_frames = 0
    /\ NestAccelArmed =>
          /\ Root.mx + Holder.accel_frames * Holder.mx = Float(3)
          /\ Holder.mx = Float(1)
          /\ Holder.accel_frames \in 0..3

\* C37 witness: the speed change over 6 frames is complete after step 6;
\* its counter went to the child in step 3 and came back to the top
\* action, with the child's acceleration, in step 5.
C37_Witness ==
    /\ NestAccelArmed /\ scn.n = 6 /\ scn.w = 0 /\ RootCalls = 6
    /\ Root.actions = <<1>> /\ heap[2].finished /\ heap[2].parent = 1
    /\ Holder.speed_frames = 0 /\ Root.speed = Float(scn.s0) + Float(6)
    /\ Holder.accel_frames = 0 /\ Root.mx = Float(3)

\* ------------------------------------------------------------------ C38
\* The root bullet of an "arm" document whose top action is the arming
\* node alone (absolute value scn.v over scn.n frames; for the vertical
\* acceleration relative) has been stepped and has not vanished: the top
\* action finished in step 1, right after arming.
ArmedThenFinished ==
    /\ scn.k = "arm" /\ scn.w = 0 /\ last.err = ""
    /\ RootCalls >= 1 /\ ~Root.vanished

\* How many deltas the steps after step 1 have applied, and how many are
\* left.
Applied == IF RootCalls - 1 < scn.n THEN RootCalls - 1 ELSE scn.n
Left == scn.n - Applied

\* C38: a root action that finished at the end of its list stays in its
\* slot, and the interpolation it armed is applied once per step until
\* its counter is 0: a top action ending in a ChangeSpeed with term n
\* brings the speed to its target over the n steps after it finished
\* (likewise a ChangeDirection and an Accel), up to the rounding of the n
\* deltas.
C38_FinishedRootKeepsInterpolating ==
    ArmedThenFinished =>
       /\ Root.actions = <<1>>
       /\ heap[1].finished /\ heap[1].pc = PcNone
       /\ scn.ty = "speed" =>
             /\ heap[1].speed_frames = Left
             /\ Root.speed = Float(scn.s0) + Applied * heap[1].speed
             /\ Left = 0 => 2 * Abs(Root.speed - Float(scn.v)) <= scn.n
       /\ scn.ty = "direction" =>
             /\ heap[1].direction_frames = Left
             /\ Root.direction = Applied * heap[1].direction
             /\ Left = 0 =>
                   2 * Abs(Root.direction - radians(Float(scn.v))) <= scn.n
       /\ scn.ty = "accel" =>
             /\ heap[1].accel_frames = Left
             /\ Root.mx = Applied * heap[1].mx
             /\ Root.my = Applied * heap[1].my
             /\ Left = 0 => /\ 2 * Abs(Root.mx - Float(scn.v)) <= scn.n
                         /\ 2 * Abs(Root.my - Float(scn.v)) <= scn.n

\* C38 witness: the top action [changeSpeed absolute 6, term MaxTerm]
\* finished in step 1 at speed 1; three steps later one delta is left, a
\* step after that the speed is 6.
C38_Witness ==
    /\ ArmedThenFinished /\ scn.ty = "speed" /\ scn.n = MaxTerm
    /\ RootCalls = MaxTerm + 1 /\ LastWasStep /\ last.i = 1
    /\ heap[1].finished /\ Root.actions = <<1>>
    /\ last.log = <<>>
    /\ last.pre.speed = Float(scn.v) - heap[1].speed
    /\ heap[1].speed # 0
    /\ Root.speed = Float(6) /\ heap[1].speed_frames = 0

\* ------------------------------------------------------------------ C39
\* The speeds of the bullets the root's k-th step returned.
SpeedsAt(k) == [j \in 1..Len(hist[1][k]) |-> hist[1][k][j].speed]

\* C39: the params of a running action are fixed when the frame is pushed
\* and never change.  The params of an ActionRef under a Repeat are
\* evaluated once, not once per iteration: in the "dice" document both
\* iterations fire a bullet with the speed $1 = the first output of the
\* generator; the params of the FireRef in the body are evaluated at each
\* execution: its bullets get the second and the third output.
C39_ParamsFixedAtPush ==
    /\ [][\A f \in 1..Len(heap) :
             f <= Len(heap') /\ heap'[f].params = heap[f].params]_vars
    /\ [](scn.k = "dice" /\ last.err = "" =>
            /\ RootCalls >= 1 /\ hist[1][1] # <<>> =>
                  /\ SpeedsAt(1) = <<rnd.stream[2], rnd.stream[1]>>
                  /\ heap[2].params = <<rnd.stream[1]>>
            /\ RootCalls >= 3 /\ hist[1][3] # <<>> =>
                  /\ SpeedsAt(3) = <<rnd.stream[3], rnd.stream[1]>>
                  /\ heap[2].params = <<rnd.stream[1]>>
                  /\ rnd.used = 3
            /\ RootCalls >= 3 /\ ~Root.vanished => Len(hist[1][3]) = 2)

\* C39 witness: the generator gave 1/4, 3/4, 3/4; the second iteration
\* fired a bullet of speed 3/4 by reference and one of speed 1/4, the
\* frame's $1.
C39_Witness ==
    /\ scn.k = "dice" /\ LastWasStep /\ last.i = 1 /\ RootCalls = 3
    /\ rnd.stream = <<Scale \div 4, (3 * Scale) \div 4, (3 * Scale) \div 4>>
    /\ Len(heap) = 2 /\ heap[2].repeat = 1
    /\ heap[2].params = <<Scale \div 4>>
    /\ SpeedsFired = <<(3 * Scale) \div 4, Scale \div 4>>

\* ------------------------------------------------------------------ C40
\* The last call was a step of a bullet that had vanished before it.
SteppedVanished == LastWasStep /\ last.pre.vanished

\* The velocity, the tags and the appearance of bullet b.
Look(b) ==
    <<b.direction, b.speed, b.mx, b.my, b.tags, b.appearance, b.apearance>>

\* The displacement of the last step, and of the step before it.
Moved == <<After.x - last.pre.x, After.y - last.pre.y>>
MovedBefore == <<last.pre.x - last.pre.px, last.pre.y - last.pre.py>>

\* C40: a step of a bullet that vanished in an earlier step (or was
\* vanished by the host) leaves its direction, speed, mx, my, tags and
\* appearance unchanged, runs and fires nothing, and still moves it: by
\* the displacement its velocity gives, the same as that of its step
\* before, even if interpolations were in progress when it vanished.
C40_VanishedKeepsMoving ==
    SteppedVanished =>
        /\ Look(After) = Look(last.pre)
        /\ After.actions = <<>> /\ After.vanished
        /\ last.log = <<>> /\ last.created = <<>>
        /\ Moved = <<last.pre.mx
                        + Mul(sin(last.pre.direction), last.pre.speed),
                     Mul(cos(last.pre.direction), last.pre.speed)
                        - last.pre.my>>
        /\ Len(hist[last.i]) >= 2 => Moved = MovedBefore

\* C40 witness: the root of the "fade" document vanished in its second
\* step with 3 of 4 frames of its speed, direction and acceleration
\* changes left; its fourth step moved it as the third did, with the
\* speed 2, the tag and the velocity of the moment it vanished.
C40_Witness ==
    /\ scn.k = "fade" /\ scn.n = 4 /\ scn.w = 0
    /\ SteppedVanished /\ last.i = 1 /\ RootCalls = 4
    /\ heap[1].speed_frames = 3 /\ heap[1].direction_frames = 3
    /\ heap[1].accel_frames = 3
    /\ Root.speed = Float(2) /\ Root.mx = Float(1) /\ Root.my = Float(1)
    /\ Root.tags = {"hot"} /\ Root.apearance = "red"
    /\ Moved = MovedBefore /\ Moved[1] > Float(1) /\ Moved[2] > 0
====
